---- MODULE Spec2Model ----
(***************************************************************************)
(* Model of ProfitCalculator (src/app/utils/profit_calculator.py): the     *)
(* continuous zero-crossing reconstruction of trades from account          *)
(* operations, process_operations_continuous and the helpers it calls.     *)
(*                                                                         *)
(* One call is modelled step by step: the operations are sorted and        *)
(* classified, the Buy/Sell operations are grouped by FIGI, each FIGI is   *)
(* walked operation by operation, the trades are sorted, fees and margin   *)
(* are assigned and the total is returned.                                 *)
(*                                                                         *)
(* Python floats are modelled as exact rationals [n, d] in lowest terms:   *)
(* rounding is not modelled.  Dates are integer ticks; one tick is the     *)
(* microsecond of the virtual operation.                                   *)
(***************************************************************************)
EXTENDS Integers, Sequences, FiniteSets, TLC

\* ------------------------------------------------------------------ bounds
MaxOps == 4
MaxPoolTrades == 4
MaxPoolEntries == 2
MaxQty == 2
MaxPrice == 2
MaxFee == 2
MaxMargin == 1
MaxStart == 1
MaxCreateOps == 3
MaxEarlierOps == 3
MaxCallOps == 3
MaxDate == 2
MaxCalls == 1
MaxPositionOps == 3
MaxConcurrentOps == 3
MaxSessionOps == 4
MaxSessionEntries == 1
MaxEntryHours == 2
MaxMethodOps == 2
MaxAlerts == 2
MaxQLimit == 2
MaxFailures == 2

\* ------------------------------------------------------- program constants
DefaultTimezoneOffset == 3
\* Scenario A: Buy 100 @ 10, Sell 100 @ 12, Fee 5.
ScenarioQuantity == 100
ScenarioBuyPrice == 10
ScenarioSellPrice == 12
ScenarioFee == 5
MinuteTicks == 10
HourTicks == 60 * MinuteTicks

Figis == {"X", "Y"}

BUY == "OPERATION_TYPE_BUY"
SELL == "OPERATION_TYPE_SELL"
BROKER_FEE == "OPERATION_TYPE_BROKER_FEE"
WRITING_OFF_VARMARGIN == "OPERATION_TYPE_WRITING_OFF_VARMARGIN"
ACCRUING_VARMARGIN == "OPERATION_TYPE_ACCRUING_VARMARGIN"
\* A kind of operation that is none of the five above: a deposit.
INPUT == "OPERATION_TYPE_INPUT"

\* ------------------------------------------------- exact "float" arithmetic
Abs(x) == IF x < 0 THEN -x ELSE x

RECURSIVE Gcd(_, _)
Gcd(a, b) == IF b = 0 THEN a ELSE Gcd(b, a % b)

Rat(n, d) ==
    LET g == Gcd(Abs(n), Abs(d))
        s == IF d < 0 THEN -1 ELSE 1
    IN  [n |-> (s * n) \div g, d |-> (s * d) \div g]

Zero == [n |-> 0, d |-> 1]
FromInt(i) == [n |-> i, d |-> 1]
RAdd(a, b) == Rat(a.n * b.d + b.n * a.d, a.d * b.d)
RSub(a, b) == Rat(a.n * b.d - b.n * a.d, a.d * b.d)
RMul(a, b) == Rat(a.n * b.n, a.d * b.d)
RDiv(a, b) == Rat(a.n * b.d, a.d * b.n)
RAbs(a) == [n |-> Abs(a.n), d |-> a.d]
RLess(a, b) == a.n * b.d < b.n * a.d

RECURSIVE RSum(_)
RSum(s) == IF s = << >> THEN Zero ELSE RAdd(Head(s), RSum(Tail(s)))

RECURSIVE Sum(_)
Sum(s) == IF s = << >> THEN 0 ELSE Head(s) + Sum(Tail(s))

\* The set of the elements of a sequence.
Range(s) == { s[i] : i \in DOMAIN s }

Map(f(_), s) == [i \in 1..Len(s) |-> f(s[i])]

\* The conversion of a Quotation to a float.  The amounts of the model are
\* whole units (nano = 0).
quotation_to_float(q) == FromInt(q)

\* --------------------------------------------------------------- the inputs
\* An operation as the broker API returns it, without its id and date.
Template(t, f, q, p) ==
    [operation_type |-> t, figi |-> f, quantity |-> q, price |-> p,
     payment |-> IF t = BUY THEN -(p * q) ELSE p * q]

FeeTemplates ==
    { [operation_type |-> BROKER_FEE, figi |-> "", quantity |-> 0, price |-> 0,
       payment |-> -a] : a \in 1..MaxFee }

MarginTemplates ==
    { [operation_type |-> ACCRUING_VARMARGIN, figi |-> "", quantity |-> 0,
       price |-> 0, payment |-> m] : m \in 1..MaxMargin }
    \cup
    { [operation_type |-> WRITING_OFF_VARMARGIN, figi |-> "", quantity |-> 0,
       price |-> 0, payment |-> -m] : m \in 1..MaxMargin }

\* The inputs of Spec: Buy/Sell operations of every size of both instruments
\* at one price, and a fee.
Templates ==
    { Template(t, f, q, 1) : t \in {BUY, SELL}, f \in Figis, q \in 1..MaxQty }
    \cup { t \in FeeTemplates : t.payment = -1 }

\* The inputs of SpecPool: one-lot Buy/Sell operations of both instruments at
\* several prices, followed by fees and margin operations.
PoolTradingTemplates ==
    { Template(BUY, f, 1, p) : f \in Figis, p \in 1..MaxPrice }
    \cup { Template(SELL, f, 1, p) : f \in Figis, p \in {1, MaxPrice + 1} }

PoolEntryTemplates == FeeTemplates \cup MarginTemplates

\* id and date are set from the place of the operation in the caller's list.
Operation(tpl, i) ==
    [id |-> "op_" \o ToString(i), date |-> i * HourTicks,
     operation_type |-> tpl.operation_type,
     figi |-> tpl.figi, quantity |-> tpl.quantity, price |-> tpl.price,
     payment |-> tpl.payment]

\* The caller's list made of the templates tpls, a sequence.
OperationList(tpls) == [i \in 1..Len(tpls) |-> Operation(tpls[i], i)]

StartingPositionMaps == [Figis -> (-MaxStart)..MaxStart]

\* starting_positions = None becomes {}.
NoStartingPositions == [f \in {} |-> 0]

\* dict.get(key, default)
Get(map, key, default) == IF key \in DOMAIN map THEN map[key] ELSE default

\* ---------------------------------------------------------- pure functions
\* correct_timezone that leaves the date as it is.
correct_timezone_unshifted(tz, date) == date

correct_timezone(tz, date) == date + tz * HourTicks

\* sorted(operations, key=lambda x: x.date): stable, ascending.
InsertByDate(x, s) ==
    LET k == Cardinality({ i \in 1..Len(s) : s[i].date <= x.date })
    IN  SubSeq(s, 1, k) \o << x >> \o SubSeq(s, k + 1, Len(s))

RECURSIVE SortByDate(_)
SortByDate(s) ==
    IF s = << >> THEN << >>
    ELSE InsertByDate(s[Len(s)], SortByDate(SubSeq(s, 1, Len(s) - 1)))

\* all_trades.sort(key=lambda x: x.exit_time): stable, ascending.
InsertByExitTime(x, s) ==
    LET k == Cardinality({ i \in 1..Len(s) : s[i].exit_time <= x.exit_time })
    IN  SubSeq(s, 1, k) \o << x >> \o SubSeq(s, k + 1, Len(s))

\* SortByExitTime that leaves the list as it is.
SortByExitTime_Unsorted(s) == s

RECURSIVE SortByExitTime(_)
SortByExitTime(s) ==
    IF s = << >> THEN << >>
    ELSE InsertByExitTime(s[Len(s)], SortByExitTime(SubSeq(s, 1, Len(s) - 1)))

IsFee(op) == op.operation_type = BROKER_FEE
IsMargin(op) == op.operation_type \in {WRITING_OFF_VARMARGIN, ACCRUING_VARMARGIN}
IsTrading(op) == op.operation_type \in {BUY, SELL}

\* _process_fee_operation: the entry appended to self.fees_buffer.
FeeEntry(op) ==
    [operation |-> op, amount |-> RAbs(quotation_to_float(op.payment)),
     date |-> op.date, assigned |-> FALSE]

\* _process_margin_operation: the entry appended to self.margin_operations.
MarginEntry(op) ==
    [operation |-> op, amount |-> quotation_to_float(op.payment),
     date |-> op.date, assigned |-> FALSE]

\* The keys of figi_operations in insertion order (first appearance).
RECURSIVE FigiOrder(_)
FigiOrder(ops) ==
    IF ops = << >> THEN << >>
    ELSE LET rest == FigiOrder(SubSeq(ops, 1, Len(ops) - 1))
             f == ops[Len(ops)].figi
         IN  IF \E i \in 1..Len(rest) : rest[i] = f THEN rest
             ELSE Append(rest, f)

OpsOfFigi(ops, f) == LET Of(op) == op.figi = f IN SelectSeq(ops, Of)

\* The virtual opening operation of a non-zero starting position.
virtual_op(f, first_op, starting_position) ==
    [id |-> "virtual_start_" \o f,
     type |-> IF starting_position > 0 THEN BUY ELSE SELL,
     date |-> first_op.date - 1,
     quantity |-> Abs(starting_position),
     price |-> Zero,
     payment |-> Zero,
     virtual |-> TRUE]

op_dict(operation) ==
    [id |-> operation.id,
     type |-> operation.operation_type,
     date |-> operation.date,
     quantity |-> operation.quantity,
     price |-> quotation_to_float(operation.price),
     payment |-> quotation_to_float(operation.payment),
     virtual |-> FALSE]

\* NewPosition with a Sell counted as a Buy.
NewPosition_AlwaysAdds(current, operation) == current + operation.quantity

NewPosition(current, operation) ==
    IF operation.operation_type = BUY
    THEN current + operation.quantity
    ELSE current - operation.quantity

\* _crosses_zero that misses a landing on exactly zero.
_crosses_zero_strict(old_position, new_position) ==
    \/ (old_position > 0 /\ new_position < 0)
    \/ (old_position < 0 /\ new_position > 0)

_crosses_zero(old_position, new_position) ==
    \/ (old_position > 0 /\ new_position <= 0)
    \/ (old_position < 0 /\ new_position >= 0)

\* IsReal that takes the virtual operation for a real one.
IsReal_All(op) == TRUE

IsReal(op) == ~op.virtual

IsBuy(op) == op.type = BUY
IsSell(op) == op.type = SELL
Quantity(op) == op.quantity

\* AbsPayment without the abs.
AbsPayment_Signed(op) == op.payment

AbsPayment(op) == RAbs(op.payment)

Min(a, b) == IF a <= b THEN a ELSE b

InitialDirection(ops, start_position) ==
    IF start_position > 0 THEN "LONG"
    ELSE IF start_position < 0 THEN "SHORT"
    ELSE IF ops[1].type = BUY THEN "LONG" ELSE "SHORT"

TradeQuantity(real_operations, start_position, end_position) ==
    LET quantity == IF start_position # 0 THEN Abs(start_position)
                    ELSE Abs(end_position)
        total_buy_qty == Sum(Map(Quantity, SelectSeq(real_operations, IsBuy)))
        total_sell_qty == Sum(Map(Quantity, SelectSeq(real_operations, IsSell)))
    IN  IF quantity = 0 THEN Min(total_buy_qty, total_sell_qty) ELSE quantity

\* IsDegenerate without the check.
IsDegenerate_Never(quantity) == FALSE

\* if quantity == 0: return None
IsDegenerate(quantity) == quantity = 0

\* The direction the trade is finally given: the one-sided branches overwrite it.
FinalDirection(direction, buy_operations, sell_operations) ==
    IF buy_operations # << >> /\ sell_operations # << >> THEN direction
    ELSE IF buy_operations # << >> THEN "LONG"
    ELSE "SHORT"

\* _create_trade_from_operations: << >> for None, << trade >> otherwise.
_create_trade_from_operations(tz, f, ops, start_position, end_position) ==
    IF ops = << >> THEN << >>
    ELSE
    LET direction0 == InitialDirection(ops, start_position)
        real_operations == SelectSeq(ops, IsReal)
    IN
    IF real_operations = << >> THEN << >>
    ELSE
    LET first_op == real_operations[1]
        last_op == real_operations[Len(real_operations)]
        quantity == TradeQuantity(real_operations, start_position, end_position)
    IN
    IF IsDegenerate(quantity) THEN << >>
    ELSE
    LET buy_operations == SelectSeq(real_operations, IsBuy)
        sell_operations == SelectSeq(real_operations, IsSell)
        both == buy_operations # << >> /\ sell_operations # << >>
        total_buy_quantity == Sum(Map(Quantity, buy_operations))
        total_sell_quantity == Sum(Map(Quantity, sell_operations))
        avg_buy_price ==
            IF total_buy_quantity > 0
            THEN RDiv(RSum(Map(AbsPayment, buy_operations)), FromInt(total_buy_quantity))
            ELSE Zero
        avg_sell_price ==
            IF total_sell_quantity > 0
            THEN RDiv(RSum(Map(AbsPayment, sell_operations)), FromInt(total_sell_quantity))
            ELSE Zero
        direction == FinalDirection(direction0, buy_operations, sell_operations)
        entry_price ==
            IF both THEN (IF direction0 = "LONG" THEN avg_buy_price ELSE avg_sell_price)
            ELSE IF buy_operations # << >> THEN buy_operations[1].price
            ELSE sell_operations[1].price
        exit_price ==
            IF both THEN (IF direction0 = "LONG" THEN avg_sell_price ELSE avg_buy_price)
            ELSE IF buy_operations # << >> THEN buy_operations[Len(buy_operations)].price
            ELSE sell_operations[Len(sell_operations)].price
        gross_profit ==
            IF direction = "LONG"
            THEN RMul(RSub(exit_price, entry_price), FromInt(quantity))
            ELSE RMul(RSub(entry_price, exit_price), FromInt(quantity))
    IN  << [trade_id |-> << f, first_op.id, last_op.id >>,
            figi |-> f,
            instrument_name |-> f,
            entry_time |-> correct_timezone(tz, first_op.date),
            exit_time |-> correct_timezone(tz, last_op.date),
            entry_price |-> entry_price,
            exit_price |-> exit_price,
            quantity |-> quantity,
            direction |-> direction,
            gross_profit |-> gross_profit,
            fees |-> Zero,
            net_profit |-> gross_profit,
            entry_operation_id |-> first_op.id,
            exit_operation_id |-> last_op.id,
            variation_margin |-> Zero] >>

Amount(e) == e.amount
AbsGrossProfit(t) == RAbs(t.gross_profit)
NetProfit(t) == t.net_profit

\* TradeFees with the share taken from the signed gross profit.
TradeFees_Signed(t, ts, total_fees) ==
    LET total_gross_profit == RSum(Map(AbsGrossProfit, ts))
    IN  IF RLess(Zero, total_fees)
        THEN IF RLess(Zero, total_gross_profit)
             THEN RDiv(RMul(total_fees, t.gross_profit), total_gross_profit)
             ELSE RDiv(total_fees, FromInt(Len(ts)))
        ELSE t.fees

\* The fees one trade is given.
TradeFees(t, ts, total_fees) ==
    LET total_gross_profit == RSum(Map(AbsGrossProfit, ts))
    IN  IF RLess(Zero, total_fees)
        THEN IF RLess(Zero, total_gross_profit)
             THEN RDiv(RMul(total_fees, RAbs(t.gross_profit)), total_gross_profit)
             ELSE RDiv(total_fees, FromInt(Len(ts)))
        ELSE t.fees

\* TradeMargin with the whole pool given to every trade.
TradeMargin_Undivided(t, ts, total_margin) ==
    IF total_margin # Zero THEN total_margin ELSE t.variation_margin

\* The variation margin one trade is given.
TradeMargin(t, ts, total_margin) ==
    IF total_margin # Zero THEN RDiv(total_margin, FromInt(Len(ts)))
    ELSE t.variation_margin

\* RecomputedNetProfit without the margin.
RecomputedNetProfit_NoMargin(gross_profit, fees, variation_margin) ==
    RSub(gross_profit, fees)

\* The net profit recomputed at the end of the assignment.
RecomputedNetProfit(gross_profit, fees, variation_margin) ==
    RAdd(RSub(gross_profit, fees), variation_margin)

\* _assign_fees_and_margin_to_trades: the trades after the call.
_assign_fees_and_margin_to_trades(ts, fees, margins) ==
    IF ts = << >> THEN ts
    ELSE
    LET total_fees == RSum(Map(Amount, fees))
        total_margin == RSum(Map(Amount, margins))
        Assigned(t) ==
            LET f == TradeFees(t, ts, total_fees)
                m == TradeMargin(t, ts, total_margin)
            IN  [t EXCEPT !.fees = f, !.variation_margin = m,
                          !.net_profit = RecomputedNetProfit(t.gross_profit, f, m)]
    IN  Map(Assigned, ts)

\* ------------------------------------------ starting positions, validation
\* positions[f] = v on a dict.
SetPosition(positions, f, v) ==
    [g \in DOMAIN positions \cup {f} |-> IF g = f THEN v ELSE positions[g]]

\* sorted(operations, key=lambda x: x.date, reverse=True): stable, descending.
InsertByDateReversed(x, s) ==
    LET k == Cardinality({ i \in 1..Len(s) : s[i].date >= x.date })
    IN  SubSeq(s, 1, k) \o << x >> \o SubSeq(s, k + 1, Len(s))

RECURSIVE SortByDateReversed(_)
SortByDateReversed(s) ==
    IF s = << >> THEN << >>
    ELSE InsertByDateReversed(s[Len(s)],
                              SortByDateReversed(SubSeq(s, 1, Len(s) - 1)))

\* Reversed with the operation applied forward.
Reversed_Forward(position, operation) ==
    IF operation.operation_type = BUY
    THEN position + operation.quantity
    ELSE position - operation.quantity

\* The position before the operation, given the position after it.
Reversed(position, operation) ==
    IF operation.operation_type = BUY
    THEN position - operation.quantity
    ELSE position + operation.quantity

\* The loop of calculate_starting_positions_from_current.
RECURSIVE ReverseOperations(_, _)
ReverseOperations(ops, positions) ==
    IF ops = << >> THEN positions
    ELSE LET operation == Head(ops)
         IN  IF IsTrading(operation)
             THEN ReverseOperations(Tail(ops),
                      SetPosition(positions, operation.figi,
                          Reversed(Get(positions, operation.figi, 0), operation)))
             ELSE ReverseOperations(Tail(ops), positions)

calculate_starting_positions_from_current(ops, current) ==
    IF ops = << >> THEN current
    ELSE ReverseOperations(SortByDateReversed(ops), current)

\* Detected with the quantity of the first operation, whatever its side.
Detected_Unsigned(first_op) == first_op.quantity

\* The starting position guessed from the first operation of a FIGI.
Detected(first_op) ==
    IF first_op.operation_type = BUY THEN -first_op.quantity
    ELSE first_op.quantity

auto_detect_starting_positions(ops) ==
    IF ops = << >> THEN NoStartingPositions
    ELSE LET trading == SelectSeq(ops, IsTrading)
             keys == { trading[i].figi : i \in 1..Len(trading) }
         IN  [f \in keys |-> Detected(SortByDate(OpsOfFigi(trading, f))[1])]

\* The loop of validate_position_consistency.
RECURSIVE ReplayOperations(_, _)
ReplayOperations(ops, positions) ==
    IF ops = << >> THEN positions
    ELSE LET operation == Head(ops)
         IN  IF IsTrading(operation)
             THEN ReplayOperations(Tail(ops),
                      SetPosition(positions, operation.figi,
                          NewPosition(Get(positions, operation.figi, 0), operation)))
             ELSE ReplayOperations(Tail(ops), positions)

\* f"FIGI {figi}: Expected {expected_pos}, got {simulated_pos}"
Issue(f, expected_pos, simulated_pos) ==
    << "FIGI ", f, ": Expected ", expected_pos, ", got ", simulated_pos >>

\* validate_position_consistency.  The issues are a set: their order in the
\* list is the order of the keys of current_positions.
\* final_simulated_positions is << >> where the returned dict has no such key.
validate_position_consistency(ops, positions, current) ==
    IF ops = << >>
    THEN [called |-> TRUE, valid |-> TRUE, issues |-> {},
          final_simulated_positions |-> << >>]
    ELSE LET simulated_positions == ReplayOperations(SortByDate(ops), positions)
             issues ==
                 { Issue(f, current[f], Get(simulated_positions, f, 0)) :
                     f \in { g \in DOMAIN current :
                               Get(simulated_positions, g, 0) # current[g] } }
         IN  [called |-> TRUE, valid |-> issues = {}, issues |-> issues,
              final_simulated_positions |-> << simulated_positions >>]

\* The "INITIAL" snapshot of get_position_history; None is "None".
InitialEntry(ops, pos) ==
    [date |-> IF ops # << >> THEN ops[1].date ELSE "None",
     position |-> pos,
     operation_type |-> "INITIAL",
     operation_id |-> "None"]

\* The snapshot get_position_history appends after a Buy or a Sell.
HistoryEntry(op, old_position, position) ==
    [date |-> op.date,
     position |-> position,
     position_change |-> position - old_position,
     operation_type |-> IF op.operation_type = BUY THEN "BUY" ELSE "SELL",
     operation_id |-> op.id,
     quantity |-> op.quantity,
     crosses_zero |-> \/ old_position > 0 /\ position <= 0
                      \/ old_position < 0 /\ position >= 0]

\* position_history[f].append(entry) on a defaultdict(list).
AppendHistory(history, f, entry) ==
    [g \in DOMAIN history \cup {f} |->
        IF g = f THEN Append(Get(history, f, << >>), entry) ELSE history[g]]

\* The loop of get_position_history.
RECURSIVE HistoryLoop(_, _, _)
HistoryLoop(ops, positions, history) ==
    IF ops = << >> THEN history
    ELSE LET op == Head(ops)
             old_position == Get(positions, op.figi, 0)
             position == IF op.operation_type = BUY
                         THEN old_position + op.quantity
                         ELSE old_position - op.quantity
         IN  IF IsTrading(op)
             THEN HistoryLoop(Tail(ops),
                      SetPosition(positions, op.figi, position),
                      AppendHistory(history, op.figi,
                                    HistoryEntry(op, old_position, position)))
             ELSE HistoryLoop(Tail(ops), positions, history)

get_position_history(ops, positions) ==
    HistoryLoop(SortByDate(ops), positions,
                [f \in DOMAIN positions |-> << InitialEntry(ops, positions[f]) >>])

\* ------------------------------------------- the call as one pure function
\* The loop of _process_figi_continuous from operation k on.
\* The re-seeded buffer holding only what the crossing operation overshot by.
NextTradeOperations_Overshoot(operation, position) ==
    IF position # 0
    THEN << [op_dict(operation) EXCEPT !.quantity = Abs(position)] >>
    ELSE << >>

\* current_trade_operations = [] after a crossing, and the crossing operation
\* appended to it if the position did not become zero.
NextTradeOperations(operation, position) ==
    IF position # 0 THEN << op_dict(operation) >> ELSE << >>

RECURSIVE FigiLoop(_, _, _, _, _, _, _)
FigiLoop(tz, f, ops, k, position, buffer, figi_trades) ==
    IF k > Len(ops) THEN figi_trades
    ELSE LET operation == ops[k]
             appended == Append(buffer, op_dict(operation))
             moved == NewPosition(position, operation)
         IN  IF _crosses_zero(position, moved)
             THEN FigiLoop(tz, f, ops, k + 1, moved,
                      NextTradeOperations(operation, moved),
                      figi_trades \o
                          _create_trade_from_operations(tz, f, appended,
                                                        position, moved))
             ELSE FigiLoop(tz, f, ops, k + 1, moved, appended, figi_trades)

\* _process_figi_continuous: the trades of one FIGI.
_process_figi_continuous(tz, f, ops, starting_position) ==
    FigiLoop(tz, f, ops, 1, starting_position,
             IF starting_position # 0
             THEN << virtual_op(f, ops[1], starting_position) >>
             ELSE << >>,
             << >>)

\* The loop of _process_continuous_trading over the FIGIs of queue.
RECURSIVE ExtendByFigi(_, _, _, _)
ExtendByFigi(tz, queue, ops, positions) ==
    IF queue = << >> THEN << >>
    ELSE _process_figi_continuous(tz, Head(queue), OpsOfFigi(ops, Head(queue)),
                                  Get(positions, Head(queue), 0))
         \o ExtendByFigi(tz, Tail(queue), ops, positions)

_process_continuous_trading(tz, ops, positions) ==
    SortByExitTime(ExtendByFigi(tz, FigiOrder(ops), ops, positions))

\* reset that leaves the buffer as it is.
reset_keeps(buffer) == buffer

\* self.reset(): the fee and margin buffers are emptied.
reset(buffer) == << >>

\* What process_operations_continuous returns when the calculator holds the
\* fee entries fees and the margin entries margins as it is called.
ContinuousResult(tz, ops, positions, fees, margins) ==
    IF ops = << >> THEN [trades |-> << >>, total_profit |-> Zero]
    ELSE LET sorted == SortByDate(ops)
             fee_entries == reset(fees) \o Map(FeeEntry, SelectSeq(sorted, IsFee))
             margin_entries ==
                 reset(margins) \o Map(MarginEntry, SelectSeq(sorted, IsMargin))
             built == _process_continuous_trading(tz,
                          SelectSeq(sorted, IsTrading), positions)
             assigned == _assign_fees_and_margin_to_trades(built, fee_entries,
                                                           margin_entries)
         IN  [trades |-> assigned, total_profit |-> RSum(Map(NetProfit, assigned))]

\* process_operations_continuous on a calculator just constructed.
process_operations_continuous(tz, ops, positions) ==
    ContinuousResult(tz, ops, positions, << >>, << >>)

\* ------------------------------------------------- the session-based path
\* current_session = None
NoSession == << >>

\* The five minutes by which a fee may lie outside the window of a session.
FeeSlack == 5 * MinuteTicks

_start_new_session(f, first_operation) ==
    [session_id |-> << f, first_operation.date, first_operation.id >>,
     figi |-> f,
     instrument_name |-> f,
     start_time |-> first_operation.date,
     end_time |-> first_operation.date,
     operations |-> << >>,
     total_quantity_sold |-> 0,
     total_quantity_bought |-> 0,
     total_sell_amount |-> Zero,
     total_buy_amount |-> Zero,
     direction |-> "UNKNOWN",
     gross_profit |-> Zero,
     fees |-> Zero,
     variation_margin |-> Zero,
     net_profit |-> Zero]

\* total_payment * quantity / operation.quantity
proportional_payment(operation, quantity) ==
    RDiv(RMul(RAbs(quotation_to_float(operation.payment)), FromInt(quantity)),
         FromInt(operation.quantity))

_add_buy_to_session(session, operation, quantity) ==
    LET op_record ==
            [id |-> operation.id,
             type |-> operation.operation_type,
             date |-> operation.date,
             quantity |-> quantity,
             price |-> quotation_to_float(operation.price),
             payment |-> RSub(Zero, proportional_payment(operation, quantity))]
    IN  [session EXCEPT
            !.operations = Append(@, op_record),
            !.total_quantity_bought = @ + quantity,
            !.total_buy_amount = RAdd(@, proportional_payment(operation, quantity)),
            !.end_time = operation.date]

_add_sell_to_session(session, operation, quantity) ==
    LET op_record ==
            [id |-> operation.id,
             type |-> operation.operation_type,
             date |-> operation.date,
             quantity |-> quantity,
             price |-> quotation_to_float(operation.price),
             payment |-> proportional_payment(operation, quantity)]
    IN  [session EXCEPT
            !.operations = Append(@, op_record),
            !.total_quantity_sold = @ + quantity,
            !.total_sell_amount = RAdd(@, proportional_payment(operation, quantity)),
            !.end_time = operation.date]

\* if is_buy: _add_buy_to_session(...) else: _add_sell_to_session(...)
AddToSession(session, operation, quantity, is_buy) ==
    IF is_buy THEN _add_buy_to_session(session, operation, quantity)
    ELSE _add_sell_to_session(session, operation, quantity)

\* session[...] - timedelta(hours=self.timezone_offset)
OriginalTime(tz, date) == date - tz * HourTicks

FeeTimeMatch(start_time_original, end_time_original, fee_date) ==
    \/ (start_time_original <= fee_date /\ fee_date <= end_time_original)
    \/ Abs(fee_date - start_time_original) <= FeeSlack
    \/ Abs(fee_date - end_time_original) <= FeeSlack

MarginTimeMatch(start_time_original, end_time_original, margin_date) ==
    start_time_original <= margin_date /\ margin_date <= end_time_original

\* figi_match: the entry has no FIGI, an empty one, or the session's.
FigiMatch(entry, session) ==
    entry.operation.figi = "" \/ entry.operation.figi = session.figi

\* FeeTaken without the assigned flag.
FeeTaken_Again(tz, session, fee) ==
    /\ FeeTimeMatch(OriginalTime(tz, session.start_time),
                    OriginalTime(tz, session.end_time), fee.date)
    /\ FigiMatch(fee, session)

\* The fee entries _get_fees_for_session counts for the session.
FeeTaken(tz, session, fee) ==
    /\ ~fee.assigned
    /\ FeeTimeMatch(OriginalTime(tz, session.start_time),
                    OriginalTime(tz, session.end_time), fee.date)
    /\ FigiMatch(fee, session)

\* The margin entries _get_variation_margin_for_session counts for the session.
MarginTaken(tz, session, margin) ==
    /\ ~margin.assigned
    /\ MarginTimeMatch(OriginalTime(tz, session.start_time),
                       OriginalTime(tz, session.end_time), margin.date)
    /\ FigiMatch(margin, session)

\* _get_fees_for_session: the total returned, and self.fees_buffer after it.
_get_fees_for_session(tz, session, buffer) ==
    LET Taken(fee) == FeeTaken(tz, session, fee)
    IN  [total |-> RSum(Map(Amount, SelectSeq(buffer, Taken))),
         buffer |-> [i \in 1..Len(buffer) |->
                        IF Taken(buffer[i])
                        THEN [buffer[i] EXCEPT !.assigned = TRUE]
                        ELSE buffer[i]]]

\* _get_variation_margin_for_session: the total returned, and
\* self.margin_operations after it.
_get_variation_margin_for_session(tz, session, buffer) ==
    LET Taken(margin) == MarginTaken(tz, session, margin)
    IN  [total |-> RSum(Map(Amount, SelectSeq(buffer, Taken))),
         buffer |-> [i \in 1..Len(buffer) |->
                        IF Taken(buffer[i])
                        THEN [buffer[i] EXCEPT !.assigned = TRUE]
                        ELSE buffer[i]]]

SessionDirection(session) ==
    IF session.total_quantity_sold > 0 /\ session.total_quantity_bought > 0
    THEN (IF session.operations[1].type = SELL THEN "SHORT" ELSE "LONG")
    ELSE IF session.total_quantity_sold > 0 THEN "SHORT"
    ELSE "LONG"

\* _finalize_session: the session, self.fees_buffer and self.margin_operations
\* after it.
_finalize_session(tz, session, fees, margins) ==
    LET gross_profit == RSub(session.total_sell_amount, session.total_buy_amount)
        got_fees == _get_fees_for_session(tz, session, fees)
        got_margin == _get_variation_margin_for_session(tz, session, margins)
    IN  [session |->
             [session EXCEPT
                 !.direction = SessionDirection(session),
                 !.gross_profit = gross_profit,
                 !.fees = got_fees.total,
                 !.variation_margin = got_margin.total,
                 !.net_profit = RAdd(RSub(gross_profit, got_fees.total),
                                     got_margin.total)],
         fees_buffer |-> got_fees.buffer,
         margin_operations |-> got_margin.buffer]

\* The state the calculator and the loop of _create_sessions_for_figi are in
\* after _process_position_change: current is << >> for None.
_process_position_change(tz, f, operation, old_position, moved, operation_qty, is_buy, current, sessions, fees, margins) ==
    IF (old_position > 0 /\ moved < 0) \/ (old_position < 0 /\ moved > 0)
    THEN LET closing_qty == Abs(old_position)
             remaining_qty == operation_qty - closing_qty
             closed == _finalize_session(tz,
                           AddToSession(current[1], operation, closing_qty, is_buy),
                           fees, margins)
             new_session == AddToSession(_start_new_session(f, operation),
                                         operation, remaining_qty, is_buy)
         IN  [current_session |->
                  IF remaining_qty > 0 THEN << new_session >> ELSE current,
              trading_sessions |->
                  IF current # NoSession THEN Append(sessions, closed.session)
                  ELSE sessions,
              fees_buffer |->
                  IF current # NoSession THEN closed.fees_buffer ELSE fees,
              margin_operations |->
                  IF current # NoSession THEN closed.margin_operations
                  ELSE margins]
    ELSE IF old_position = 0
    THEN [current_session |->
              << AddToSession(_start_new_session(f, operation), operation,
                              operation_qty, is_buy) >>,
          trading_sessions |-> sessions,
          fees_buffer |-> fees,
          margin_operations |-> margins]
    ELSE [current_session |->
              << AddToSession(IF current = NoSession
                              THEN _start_new_session(f, operation)
                              ELSE current[1],
                              operation, operation_qty, is_buy) >>,
          trading_sessions |-> sessions,
          fees_buffer |-> fees,
          margin_operations |-> margins]

\* The end of _create_sessions_for_figi: the session left is finalized and kept
\* if it has both bought and sold.
IsRoundTrip(session) ==
    session.total_quantity_bought > 0 /\ session.total_quantity_sold > 0

_create_trade_from_session(tz, session) ==
    LET avg_sell_price ==
            IF session.total_quantity_sold > 0
            THEN RDiv(session.total_sell_amount,
                      FromInt(session.total_quantity_sold))
            ELSE Zero
        avg_buy_price ==
            IF session.total_quantity_bought > 0
            THEN RDiv(session.total_buy_amount,
                      FromInt(session.total_quantity_bought))
            ELSE Zero
    IN  [trade_id |-> session.session_id,
         figi |-> session.figi,
         instrument_name |-> session.instrument_name,
         entry_time |-> correct_timezone(tz, session.start_time),
         exit_time |-> correct_timezone(tz, session.end_time),
         entry_price |-> avg_sell_price,
         exit_price |-> avg_buy_price,
         quantity |-> session.total_quantity_sold,
         direction |-> session.direction,
         gross_profit |-> session.gross_profit,
         fees |-> session.fees,
         net_profit |-> session.net_profit,
         entry_operation_id |-> session.operations[1].id,
         exit_operation_id |-> session.operations[Len(session.operations)].id,
         session_data |->
             [session EXCEPT
                 !.start_time = correct_timezone(tz, session.start_time),
                 !.end_time = correct_timezone(tz, session.end_time)],
         variation_margin |-> session.variation_margin]

\* -------------------------------------------------------------------- state
VARIABLES
    operations,                \* argument: the caller's list
    starting_positions,        \* argument: FIGI -> signed lots
    timezone_offset,           \* self.timezone_offset
    pc,                        \* position in process_operations_continuous
    sorted_operations,         \* local of process_operations_continuous
    fees_buffer,               \* self.fees_buffer
    margin_operations,         \* self.margin_operations
    trading_operations,        \* local: the Buy/Sell operations, sorted
    figi_queue,                \* FIGIs of figi_operations not yet processed
    figi,                      \* FIGI being processed
    figi_ops,                  \* its operations
    op_index,                  \* number of its operations processed
    current_position,          \* local of _process_figi_continuous
    new_position,              \* local of _process_figi_continuous
    current_trade_operations,  \* local of _process_figi_continuous
    trades,                    \* local of _process_figi_continuous
    all_trades,                \* local of _process_continuous_trading
    total_profit,              \* returned total
    current_positions,         \* argument of the estimator and the validator
    use_current_positions,     \* whether the caller passes current_positions
    position_history,          \* what get_position_history returned
    report,                    \* what validate_position_consistency returned
    calls,                     \* calls this calculator has completed
    other,                     \* a second call running on this calculator
    current_session,           \* local of _create_sessions_for_figi
    trading_sessions,          \* self.trading_sessions
    completed_trades,          \* self.completed_trades
    method,                    \* the public method the caller called
    q_limit,                   \* main.q_limit
    work_on_time,              \* main.work_on_time, with time_end set
    position,                  \* the account's position at the broker, in lots
    unsuccessful_trade,        \* main.unsuccessful_trade
    failures_left,             \* the orders the broker will still refuse
    tasks                      \* the asyncio tasks, each at an await

\* The trading bot of src/app/main.py.
bot_vars == << q_limit, work_on_time, position, unsuccessful_trade,
              failures_left, tasks >>

vars == << operations, starting_positions, timezone_offset, pc,
           sorted_operations, fees_buffer, margin_operations,
           trading_operations, figi_queue, figi, figi_ops, op_index,
           current_position, new_position, current_trade_operations, trades,
           all_trades, total_profit, current_positions,
           use_current_positions, position_history, bot_vars,
           report, calls, other,
           current_session, trading_sessions, completed_trades, method >>

\* The variables of the calculator and of its callers.
calculator_vars == << operations, starting_positions, timezone_offset, pc,
                     sorted_operations, fees_buffer, margin_operations,
                     trading_operations, figi_queue, figi, figi_ops, op_index,
                     current_position, new_position, current_trade_operations,
                     trades, all_trades, total_profit, current_positions,
                     use_current_positions, position_history, report, calls,
                     other, current_session, trading_sessions,
                     completed_trades, method >>

\* What the reconstruction call does not touch.
session_vars == << current_positions,
                   use_current_positions, position_history, bot_vars, report, calls, other,
                   current_session, trading_sessions, completed_trades, method >>

\* The state of the session-based path and the method called.
session_state == << current_session, trading_sessions, completed_trades, method >>

\* The bot is not running: no alert arrives.
NoBot ==
    /\ q_limit = 1
    /\ work_on_time = FALSE
    /\ position = 0
    /\ unsuccessful_trade = "None"
    /\ failures_left = 0
    /\ tasks = << >>

\* No validation was asked for.
NoReport ==
    [called |-> FALSE, valid |-> TRUE, issues |-> {},
     final_simulated_positions |-> << >>]

\* get_position_history was not called.
NoHistory == [f \in {} |-> << >>]

\* No second call is running.
NoOther ==
    [pc |-> "none", operations |-> << >>, trades |-> << >>, total_profit |-> Zero]

\* ------------------------------------------------------------------ actions
\* A fresh calculator (__init__, reset).
FreshCalculator ==
    /\ timezone_offset = DefaultTimezoneOffset
    /\ sorted_operations = << >>
    /\ fees_buffer = << >>
    /\ margin_operations = << >>
    /\ trading_operations = << >>
    /\ figi_queue = << >>
    /\ figi = ""
    /\ figi_ops = << >>
    /\ op_index = 0
    /\ current_position = 0
    /\ new_position = 0
    /\ current_trade_operations = << >>
    /\ trades = << >>
    /\ all_trades = << >>
    /\ total_profit = Zero
    /\ report = NoReport
    /\ position_history = NoHistory
    /\ calls = << >>
    /\ other = NoOther
    /\ current_session = NoSession
    /\ trading_sessions = << >>
    /\ completed_trades = << >>

\* A fresh calculator about to be called with operations and starting_positions.
Fresh ==
    /\ FreshCalculator
    /\ NoBot
    /\ pc = "call"
    /\ method = "process_operations_continuous"
    /\ current_positions = NoStartingPositions
    /\ use_current_positions = FALSE

Init ==
    \E n \in 0..MaxOps : \E tpls \in [1..n -> Templates] :
        /\ operations = OperationList(tpls)
        /\ starting_positions \in StartingPositionMaps
        /\ Fresh

InitPool ==
    \E n \in 0..MaxPoolTrades : \E tpls \in [1..n -> PoolTradingTemplates] :
        \E m \in 0..MaxPoolEntries : \E entries \in [1..m -> PoolEntryTemplates] :
            /\ operations = OperationList(tpls \o entries)
            /\ starting_positions = NoStartingPositions
            /\ Fresh

\* ReturnEmpty that raises on the empty list instead of returning.
ReturnEmpty_Raises ==
    /\ pc = "call"
    /\ operations = << >>
    /\ pc' = "raised"
    /\ UNCHANGED session_vars
    /\ UNCHANGED << operations, starting_positions, timezone_offset,
                    sorted_operations, fees_buffer, margin_operations,
                    trading_operations, figi_queue, figi, figi_ops, op_index,
                    current_position, new_position, current_trade_operations, trades,
                    all_trades, total_profit >>

\* process_operations_continuous on an empty list: return [], 0.0, [].
ReturnEmpty ==
    /\ pc = "call"
    /\ operations = << >>
    /\ pc' = "done"
    /\ UNCHANGED session_vars
    /\ UNCHANGED << operations, starting_positions, timezone_offset,
                    sorted_operations, fees_buffer, margin_operations,
                    trading_operations, figi_queue, figi, figi_ops, op_index,
                    current_position, new_position, current_trade_operations, trades,
                    all_trades, total_profit >>

\* reset(), the sort and the classification loop.
Prepare ==
    /\ pc = "call"
    /\ operations # << >>
    /\ sorted_operations' = SortByDate(operations)
    /\ fees_buffer' = reset(fees_buffer)
                        \o Map(FeeEntry, SelectSeq(sorted_operations', IsFee))
    /\ margin_operations' = reset(margin_operations)
                        \o Map(MarginEntry, SelectSeq(sorted_operations', IsMargin))
    /\ trading_operations' = SelectSeq(sorted_operations', IsTrading)
    /\ completed_trades' = << >>
    /\ trading_sessions' = << >>
    /\ pc' = "group"
    /\ UNCHANGED << current_positions,
                    use_current_positions, position_history, bot_vars,
                    report, calls, other, current_session,
                    method >>
    /\ UNCHANGED << operations, starting_positions, timezone_offset,
                    figi_queue, figi, figi_ops, op_index, current_position, new_position,
                    current_trade_operations, trades, all_trades, total_profit >>

\* _process_continuous_trading up to its loop: group the operations by FIGI.
GroupByFigi ==
    /\ pc = "group"
    /\ figi_queue' = FigiOrder(trading_operations)
    /\ all_trades' = << >>
    /\ pc' = "figis"
    /\ UNCHANGED session_vars
    /\ UNCHANGED << operations, starting_positions, timezone_offset,
                    sorted_operations, fees_buffer, margin_operations,
                    trading_operations, figi, figi_ops, op_index,
                    current_position, new_position, current_trade_operations, trades,
                    total_profit >>

\* The next FIGI: _process_figi_continuous up to its loop.
StartFigi ==
    /\ pc = "figis"
    /\ figi_queue # << >>
    /\ LET f == Head(figi_queue)
           ops == OpsOfFigi(trading_operations, f)
           starting_pos == Get(starting_positions, f, 0)
       IN  /\ figi' = f
           /\ figi_ops' = ops
           /\ current_position' = starting_pos
           /\ current_trade_operations' =
                  IF starting_pos # 0
                  THEN << virtual_op(f, ops[1], starting_pos) >>
                  ELSE << >>
    /\ figi_queue' = Tail(figi_queue)
    /\ op_index' = 0
    /\ trades' = << >>
    /\ pc' = "ops"
    /\ UNCHANGED session_vars
    /\ UNCHANGED << operations, starting_positions, timezone_offset,
                    sorted_operations, fees_buffer, margin_operations,
                    trading_operations, new_position, all_trades,
                    total_profit >>

\* One iteration of the loop of _process_figi_continuous.
ProcessOperation ==
    /\ pc = "ops"
    /\ op_index < Len(figi_ops)
    /\ LET operation == figi_ops[op_index + 1]
           buffer == Append(current_trade_operations, op_dict(operation))
       IN  /\ new_position' = NewPosition(current_position, operation)
           /\ IF _crosses_zero(current_position, new_position')
              THEN /\ trades' = trades \o
                          _create_trade_from_operations(timezone_offset, figi,
                              buffer, current_position, new_position')
                   /\ current_trade_operations' =
                          NextTradeOperations(operation, new_position')
              ELSE /\ trades' = trades
                   /\ current_trade_operations' = buffer
           /\ current_position' = new_position'
    /\ op_index' = op_index + 1
    /\ UNCHANGED session_vars
    /\ UNCHANGED << operations, starting_positions, timezone_offset, pc,
                    sorted_operations, fees_buffer, margin_operations,
                    trading_operations, figi_queue, figi, figi_ops,
                    all_trades, total_profit >>

\* FinishFigi that also turns the operations left in the buffer into a trade.
FinishFigi_EmitsOpen ==
    /\ pc = "ops"
    /\ op_index = Len(figi_ops)
    /\ all_trades' = all_trades \o trades \o
           _create_trade_from_operations(timezone_offset, figi,
               current_trade_operations, current_position, current_position)
    /\ pc' = "figis"
    /\ UNCHANGED session_vars
    /\ UNCHANGED << operations, starting_positions, timezone_offset,
                    sorted_operations, fees_buffer, margin_operations,
                    trading_operations, figi_queue, figi, figi_ops, op_index,
                    current_position, new_position, current_trade_operations,
                    trades, total_profit >>

\* _process_figi_continuous returns; all_trades.extend(figi_trades).
FinishFigi ==
    /\ pc = "ops"
    /\ op_index = Len(figi_ops)
    /\ all_trades' = all_trades \o trades
    /\ pc' = "figis"
    /\ UNCHANGED session_vars
    /\ UNCHANGED << operations, starting_positions, timezone_offset,
                    sorted_operations, fees_buffer, margin_operations,
                    trading_operations, figi_queue, figi, figi_ops, op_index,
                    current_position, new_position, current_trade_operations, trades,
                    total_profit >>

\* all_trades.sort(key=exit_time) once every FIGI is processed.
SortTrades ==
    /\ pc = "figis"
    /\ figi_queue = << >>
    /\ all_trades' = SortByExitTime(all_trades)
    /\ pc' = "assign"
    /\ UNCHANGED session_vars
    /\ UNCHANGED << operations, starting_positions, timezone_offset,
                    sorted_operations, fees_buffer, margin_operations,
                    trading_operations, figi_queue, figi, figi_ops, op_index,
                    current_position, new_position, current_trade_operations, trades,
                    total_profit >>

\* _assign_fees_and_margin_to_trades(trades), the total and the return.
AssignAndReturn ==
    /\ pc = "assign"
    /\ all_trades' = _assign_fees_and_margin_to_trades(all_trades, fees_buffer,
                                                       margin_operations)
    /\ total_profit' = RSum(Map(NetProfit, all_trades'))
    /\ pc' = "done"
    /\ UNCHANGED session_vars
    /\ UNCHANGED << operations, starting_positions, timezone_offset,
                    sorted_operations, fees_buffer, margin_operations,
                    trading_operations, figi_queue, figi, figi_ops, op_index,
                    current_position, new_position, current_trade_operations, trades >>

Next ==
    \/ ReturnEmpty
    \/ Prepare
    \/ GroupByFigi
    \/ StartFigi
    \/ ProcessOperation
    \/ FinishFigi
    \/ SortTrades
    \/ AssignAndReturn

Spec == Init /\ [][Next]_vars

SpecPool == InitPool /\ [][Next]_vars

\* A direct call of _create_trade_from_operations(figi, operations,
\* start_position, end_position): the buffer is Buy/Sell operations of one
\* instrument, after a virtual operation or not; the arguments are in
\* current_trade_operations, current_position and new_position.
InitCreate ==
    \E n \in 0..MaxCreateOps :
    \E tpls \in [1..n -> { Template(t, "X", q, 1) : t \in {BUY, SELL}, q \in 1..MaxQty }] :
    \E v \in (-MaxStart)..MaxStart :
        /\ operations = OperationList(tpls)
        /\ starting_positions = NoStartingPositions
        /\ timezone_offset = DefaultTimezoneOffset
        /\ pc = "create"
        /\ sorted_operations = << >>
        /\ fees_buffer = << >>
        /\ margin_operations = << >>
        /\ trading_operations = << >>
        /\ figi_queue = << >>
        /\ figi = "X"
        /\ figi_ops = operations
        /\ op_index = 0
        /\ current_position \in (-MaxStart)..MaxStart
        /\ new_position \in (-MaxStart)..MaxStart
        /\ current_trade_operations =
               (IF v # 0 /\ n > 0 THEN << virtual_op("X", operations[1], v) >>
                ELSE << >>) \o Map(op_dict, operations)
        /\ trades = << >>
        /\ all_trades = << >>
        /\ total_profit = Zero
        /\ current_positions = NoStartingPositions
        /\ use_current_positions = FALSE
        /\ report = NoReport
        /\ position_history = NoHistory
        /\ NoBot
        /\ calls = << >>
        /\ other = NoOther
        /\ current_session = NoSession
        /\ trading_sessions = << >>
        /\ completed_trades = << >>
        /\ method = "_create_trade_from_operations"

CallCreate ==
    /\ pc = "create"
    /\ trades' = _create_trade_from_operations(timezone_offset, figi,
                     current_trade_operations, current_position, new_position)
    /\ pc' = "created"
    /\ UNCHANGED session_vars
    /\ UNCHANGED << operations, starting_positions, timezone_offset,
                    sorted_operations, fees_buffer, margin_operations,
                    trading_operations, figi_queue, figi, figi_ops, op_index,
                    current_position, new_position, current_trade_operations,
                    all_trades, total_profit >>

NextCreate == Next \/ CallCreate

\* The reconstruction call, and direct calls of _create_trade_from_operations.
SpecCreate == (Init \/ InitCreate) /\ [][NextCreate]_vars

\* ------------------------------------------ several calls on one calculator
\* The inputs of the calls of SpecCalls: one-lot operations of one instrument
\* bought at 1 and sold at 2, a fee, and a deposit.
CallTemplates ==
    { Template(BUY, "X", 1, 1), Template(SELL, "X", 1, 2),
      Template(INPUT, "", 0, 0) }
    \cup { t \in FeeTemplates : t.payment = -1 }

\* The timezone offsets a calculator is given.
Offsets == {0, DefaultTimezoneOffset}

\* An operation whose date is hour d: two operations may bear one date.
OperationAt(tpl, i, d) == [Operation(tpl, i) EXCEPT !.date = d * HourTicks]

ScenarioA ==
    << [Operation(Template(BUY, "X", ScenarioQuantity, ScenarioBuyPrice), 1)
            EXCEPT !.date = 0],
       [Operation(Template(SELL, "X", ScenarioQuantity, ScenarioSellPrice), 2)
            EXCEPT !.date = HourTicks],
       [Operation([operation_type |-> BROKER_FEE, figi |-> "X", quantity |-> 0,
                   price |-> 0, payment |-> -ScenarioFee], 3)
            EXCEPT !.date = HourTicks + MinuteTicks] >>

\* A short sold at 12 and bought back at 10 an hour later.
ScenarioB ==
    << [Operation(Template(SELL, "X", ScenarioQuantity, ScenarioSellPrice), 1)
            EXCEPT !.date = 0],
       [Operation(Template(BUY, "X", ScenarioQuantity, ScenarioBuyPrice), 2)
            EXCEPT !.date = HourTicks] >>

\* A long of 100 lots, a Sell of 150 that flips it to a short of 50, and the
\* Buy of 50 that closes the short.
ScenarioC ==
    << [Operation(Template(BUY, "X", ScenarioQuantity, ScenarioBuyPrice), 1)
            EXCEPT !.date = 0],
       [Operation(Template(SELL, "X", 150, ScenarioSellPrice), 2)
            EXCEPT !.date = HourTicks],
       [Operation(Template(BUY, "X", 50, ScenarioBuyPrice), 3)
            EXCEPT !.date = 2 * HourTicks] >>

\* The first call: operations at distinct dates, on a calculator just made.
InitCalls ==
    \E n \in 0..MaxEarlierOps : \E tpls \in [1..n -> CallTemplates] :
        /\ operations = OperationList(tpls)
        /\ starting_positions = NoStartingPositions
        /\ Fresh

\* The record of a call that has returned.
CompletedCall ==
    [operations |-> operations, starting_positions |-> starting_positions,
     timezone_offset |-> timezone_offset,
     trades |-> all_trades, total_profit |-> total_profit]

\* The caller keeps the calculator and calls it again: self.fees_buffer and
\* self.margin_operations are as the call before left them, the locals are new.
CallAgain ==
    /\ pc = "done"
    /\ Len(calls) < MaxCalls
    /\ calls' = Append(calls, CompletedCall)
    /\ \/ \E n \in 0..MaxCallOps : \E tpls \in [1..n -> CallTemplates] :
              \E dates \in [1..n -> 1..MaxDate] :
                  operations' = [i \in 1..n |-> OperationAt(tpls[i], i, dates[i])]
       \/ operations' \in {ScenarioA, ScenarioB, ScenarioC}
       \/ operations' = operations
    /\ timezone_offset' \in Offsets
    /\ pc' = "call"
    /\ sorted_operations' = << >>
    /\ trading_operations' = << >>
    /\ figi_queue' = << >>
    /\ figi' = ""
    /\ figi_ops' = << >>
    /\ op_index' = 0
    /\ current_position' = 0
    /\ new_position' = 0
    /\ current_trade_operations' = << >>
    /\ trades' = << >>
    /\ all_trades' = << >>
    /\ total_profit' = Zero
    /\ UNCHANGED << starting_positions, fees_buffer, margin_operations,
                    current_positions,
                    use_current_positions, position_history, bot_vars,
                    report, other, current_session,
                    trading_sessions, completed_trades, method >>

NextCalls == Next \/ CallAgain

SpecCalls == InitCalls /\ [][NextCalls]_vars

\* ------------------------------- estimated starting positions, validation
\* A map from some of the FIGIs to signed lots.
PositionMaps == UNION { [S -> (-MaxStart)..MaxStart] : S \in SUBSET Figis }

\* The caller holds operations and, maybe empty, the current positions.
InitPositions ==
    \E n \in 0..MaxPositionOps : \E tpls \in [1..n -> Templates] :
        /\ operations = OperationList(tpls)
        /\ starting_positions = NoStartingPositions
        /\ current_positions \in PositionMaps
        /\ use_current_positions = TRUE
        /\ pc = "estimate"
        /\ method = "process_operations_continuous"
        /\ FreshCalculator
        /\ NoBot

\* starting_positions = calculate_starting_positions_from_current(...)
CalculateFromCurrent ==
    /\ pc = "estimate"
    /\ starting_positions' =
           calculate_starting_positions_from_current(operations, current_positions)
    /\ pc' = "calculated"
    /\ UNCHANGED << operations, timezone_offset, sorted_operations, fees_buffer,
                    margin_operations, trading_operations, figi_queue, figi,
                    figi_ops, op_index, current_position, new_position,
                    current_trade_operations, trades, all_trades, total_profit,
                    current_positions,
                    use_current_positions, position_history, bot_vars,
                    report, calls, other >>
    /\ UNCHANGED session_state

\* starting_positions = auto_detect_starting_positions(operations)
AutoDetect ==
    /\ pc = "estimate"
    /\ starting_positions' = auto_detect_starting_positions(operations)
    /\ pc' = "detected"
    /\ UNCHANGED << operations, timezone_offset, sorted_operations, fees_buffer,
                    margin_operations, trading_operations, figi_queue, figi,
                    figi_ops, op_index, current_position, new_position,
                    current_trade_operations, trades, all_trades, total_profit,
                    current_positions,
                    use_current_positions, position_history, bot_vars,
                    report, calls, other >>
    /\ UNCHANGED session_state

\* position_history = calculator.get_position_history(operations,
\* starting_positions)
PositionHistory ==
    /\ pc \in {"calculated", "detected"}
    /\ position_history' = get_position_history(operations, starting_positions)
    /\ pc' = "history"
    /\ UNCHANGED << operations, starting_positions, timezone_offset,
                    sorted_operations, fees_buffer, margin_operations,
                    trading_operations, figi_queue, figi, figi_ops, op_index,
                    current_position, new_position, current_trade_operations,
                    trades, all_trades, total_profit, current_positions,
                    use_current_positions, bot_vars, report, calls, other >>
    /\ UNCHANGED session_state

\* validate_position_consistency(operations, starting_positions,
\* current_positions); the reconstruction is called next.
Validate ==
    /\ pc = "history"
    /\ report' = validate_position_consistency(operations, starting_positions,
                                               current_positions)
    /\ pc' = "call"
    /\ UNCHANGED << operations, starting_positions, timezone_offset,
                    sorted_operations, fees_buffer, margin_operations,
                    trading_operations, figi_queue, figi, figi_ops, op_index,
                    current_position, new_position, current_trade_operations,
                    trades, all_trades, total_profit, current_positions,
                    use_current_positions, position_history, bot_vars,
                    calls,
                    other >>
    /\ UNCHANGED session_state

NextPositions ==
    CalculateFromCurrent \/ AutoDetect \/ PositionHistory \/ Validate \/ Next

SpecPositions == InitPositions /\ [][NextPositions]_vars

\* --------------------------------------- two calls at once on one calculator
\* A second thread calls process_operations_continuous(other.operations) on
\* the same calculator while the first call runs.  Its locals are in other;
\* self.fees_buffer and self.margin_operations are the calculator's.
InitConcurrent ==
    \E n \in 0..MaxConcurrentOps : \E tpls \in [1..n -> CallTemplates] :
    \E m \in 1..MaxConcurrentOps : \E others \in [1..m -> CallTemplates] :
        /\ operations = OperationList(tpls)
        /\ starting_positions = NoStartingPositions
        /\ current_positions = NoStartingPositions
        /\ use_current_positions = FALSE
        /\ pc = "call"
        /\ timezone_offset = DefaultTimezoneOffset
        /\ sorted_operations = << >>
        /\ fees_buffer = << >>
        /\ margin_operations = << >>
        /\ trading_operations = << >>
        /\ figi_queue = << >>
        /\ figi = ""
        /\ figi_ops = << >>
        /\ op_index = 0
        /\ current_position = 0
        /\ new_position = 0
        /\ current_trade_operations = << >>
        /\ trades = << >>
        /\ all_trades = << >>
        /\ total_profit = Zero
        /\ report = NoReport
        /\ position_history = NoHistory
        /\ NoBot
        /\ calls = << >>
        /\ other = [NoOther EXCEPT !.pc = "call", !.operations = OperationList(others)]
        /\ current_session = NoSession
        /\ trading_sessions = << >>
        /\ completed_trades = << >>
        /\ method = "process_operations_continuous"

\* The second call: reset(), the sort and the classification loop.
OtherPrepare ==
    /\ other.pc = "call"
    /\ other.operations # << >>
    /\ LET sorted == SortByDate(other.operations)
       IN  /\ fees_buffer' = reset(fees_buffer)
                                 \o Map(FeeEntry, SelectSeq(sorted, IsFee))
           /\ margin_operations' = reset(margin_operations)
                                 \o Map(MarginEntry, SelectSeq(sorted, IsMargin))
    /\ other' = [other EXCEPT !.pc = "trade"]
    /\ completed_trades' = << >>
    /\ trading_sessions' = << >>
    /\ UNCHANGED << current_session, method >>
    /\ UNCHANGED << operations, starting_positions, timezone_offset, pc,
                    sorted_operations, trading_operations, figi_queue, figi,
                    figi_ops, op_index, current_position, new_position,
                    current_trade_operations, trades, all_trades, total_profit,
                    current_positions,
                    use_current_positions, position_history, bot_vars,
                    report, calls >>

\* The second call: _process_continuous_trading, on its locals alone.
OtherTrade ==
    /\ other.pc = "trade"
    /\ other' = [other EXCEPT
           !.pc = "assign",
           !.trades = _process_continuous_trading(timezone_offset,
                          SelectSeq(SortByDate(other.operations), IsTrading),
                          NoStartingPositions)]
    /\ UNCHANGED << operations, starting_positions, timezone_offset, pc,
                    sorted_operations, fees_buffer, margin_operations,
                    trading_operations, figi_queue, figi, figi_ops, op_index,
                    current_position, new_position, current_trade_operations,
                    trades, all_trades, total_profit, current_positions,
                    use_current_positions, position_history, bot_vars,
                    
                    report, calls >>
    /\ UNCHANGED session_state

\* The second call: _assign_fees_and_margin_to_trades, the total, the return.
OtherAssign ==
    /\ other.pc = "assign"
    /\ LET assigned == _assign_fees_and_margin_to_trades(other.trades,
                           fees_buffer, margin_operations)
       IN  other' = [other EXCEPT
               !.pc = "done",
               !.trades = assigned,
               !.total_profit = RSum(Map(NetProfit, assigned))]
    /\ UNCHANGED << operations, starting_positions, timezone_offset, pc,
                    sorted_operations, fees_buffer, margin_operations,
                    trading_operations, figi_queue, figi, figi_ops, op_index,
                    current_position, new_position, current_trade_operations,
                    trades, all_trades, total_profit, current_positions,
                    use_current_positions, position_history, bot_vars,
                    
                    report, calls >>
    /\ UNCHANGED session_state

NextConcurrent == Next \/ OtherPrepare \/ OtherTrade \/ OtherAssign

SpecConcurrent == InitConcurrent /\ [][NextConcurrent]_vars

\* ------------------------------------------------- the session-based call
\* The Buy/Sell operations of SpecSession: instrument X in lots of one and two
\* and one lot of instrument Y, bought at 1 and sold at 2.
SessionTemplates ==
    { Template(t, "X", q, IF t = BUY THEN 1 ELSE 2) :
          t \in {BUY, SELL}, q \in 1..MaxQty }
    \cup { Template(BUY, "Y", 1, 1), Template(SELL, "Y", 1, 2) }

\* The fee and margin operations of SpecSession: a fee of either instrument
\* and a margin credit that names no instrument.
SessionEntryTemplates ==
    { [operation_type |-> BROKER_FEE, figi |-> f, quantity |-> 0, price |-> 0,
       payment |-> -1] : f \in Figis }
    \cup { t \in MarginTemplates : t.payment = 1 }

\* Their dates: on the hour, a minute after it and six minutes after it, from
\* hours before the first Buy/Sell operation to the hour of the last.
SessionEntryDates ==
    { k * HourTicks + d : k \in (-MaxEntryHours)..MaxSessionOps,
                          d \in {0, MinuteTicks, FeeSlack + MinuteTicks} }

\* The Buy/Sell operations tpls, an hour apart, and the fee and margin
\* operations entries at the dates dates.
SessionOperations(tpls, entries, dates) ==
    OperationList(tpls) \o
    [i \in 1..Len(entries) |->
        [Operation(entries[i], Len(tpls) + i) EXCEPT !.date = dates[i]]]

\* The methods that take the operations alone, or with the current positions.
OtherMethods ==
    {"process_operations_continuous", "process_operations_with_auto_positions",
     "get_enhanced_profit_analysis"}

\* The caller holds operations and calls one of the four public methods on a
\* calculator just made.
InitSession ==
    /\ FreshCalculator
    /\ NoBot
    /\ starting_positions = NoStartingPositions
    /\ \/ /\ method = "process_operations"
          /\ current_positions = NoStartingPositions
          /\ use_current_positions = FALSE
          /\ \/ \E n \in 0..MaxSessionOps : \E tpls \in [1..n -> SessionTemplates] :
                \E m \in 0..MaxSessionEntries :
                \E entries \in [1..m -> SessionEntryTemplates] :
                \E dates \in [1..m -> SessionEntryDates] :
                    operations = SessionOperations(tpls, entries, dates)
             \/ operations = ScenarioA
       \/ /\ method \in OtherMethods
          /\ use_current_positions \in
                 IF method = "get_enhanced_profit_analysis" THEN BOOLEAN
                 ELSE {FALSE}
          /\ current_positions \in
                 IF use_current_positions THEN PositionMaps
                 ELSE {NoStartingPositions}
          /\ \E n \in 0..MaxMethodOps : \E tpls \in [1..n -> Templates] :
                 operations = OperationList(tpls)
    /\ pc = "method"

\* process_operations: process_operations_with_starting_positions(operations, {}).
CallProcessOperations ==
    /\ pc = "method"
    /\ method = "process_operations"
    /\ starting_positions' = NoStartingPositions
    /\ pc' = "session_call"
    /\ UNCHANGED << operations, timezone_offset, sorted_operations, fees_buffer,
                    margin_operations, trading_operations, figi_queue, figi,
                    figi_ops, op_index, current_position, new_position,
                    current_trade_operations, trades, all_trades, total_profit >>
    /\ UNCHANGED session_vars

\* process_operations_continuous(operations), starting_positions = None.
CallContinuous ==
    /\ pc = "method"
    /\ method = "process_operations_continuous"
    /\ starting_positions' = NoStartingPositions
    /\ pc' = "call"
    /\ UNCHANGED << operations, timezone_offset, sorted_operations, fees_buffer,
                    margin_operations, trading_operations, figi_queue, figi,
                    figi_ops, op_index, current_position, new_position,
                    current_trade_operations, trades, all_trades, total_profit >>
    /\ UNCHANGED session_vars

\* process_operations_with_auto_positions up to its call of
\* process_operations_continuous.
AutoPositions ==
    /\ pc = "method"
    /\ method = "process_operations_with_auto_positions"
    /\ starting_positions' = auto_detect_starting_positions(operations)
    /\ pc' = "call"
    /\ UNCHANGED << operations, timezone_offset, sorted_operations, fees_buffer,
                    margin_operations, trading_operations, figi_queue, figi,
                    figi_ops, op_index, current_position, new_position,
                    current_trade_operations, trades, all_trades, total_profit >>
    /\ UNCHANGED session_vars

\* get_enhanced_profit_analysis on an empty list: return [], 0.0, [], {}, {}.
EnhancedReturnEmpty ==
    /\ pc = "method"
    /\ method = "get_enhanced_profit_analysis"
    /\ operations = << >>
    /\ starting_positions' = NoStartingPositions
    /\ pc' = "enhanced_done"
    /\ UNCHANGED << operations, timezone_offset, sorted_operations, fees_buffer,
                    margin_operations, trading_operations, figi_queue, figi,
                    figi_ops, op_index, current_position, new_position,
                    current_trade_operations, trades, all_trades, total_profit >>
    /\ UNCHANGED session_vars

\* get_enhanced_profit_analysis up to its call of
\* process_operations_with_starting_positions(sorted_operations, ...).  The
\* caller passes current_positions if use_current_positions else None, and
\* "if current_positions:" takes neither None nor an empty map.
EnhancedEstimate ==
    /\ pc = "method"
    /\ method = "get_enhanced_profit_analysis"
    /\ operations # << >>
    /\ sorted_operations' = SortByDate(operations)
    /\ starting_positions' =
           IF use_current_positions /\ current_positions # NoStartingPositions
           THEN calculate_starting_positions_from_current(sorted_operations',
                                                          current_positions)
           ELSE auto_detect_starting_positions(sorted_operations')
    /\ pc' = "session_call"
    /\ UNCHANGED << operations, timezone_offset, fees_buffer,
                    margin_operations, trading_operations, figi_queue, figi,
                    figi_ops, op_index, current_position, new_position,
                    current_trade_operations, trades, all_trades, total_profit >>
    /\ UNCHANGED session_vars

\* process_operations_with_starting_positions: reset(), the sort and the
\* classification loop.  get_enhanced_profit_analysis passes its sorted list.
SessionPrepare ==
    /\ pc = "session_call"
    /\ sorted_operations' =
           SortByDate(IF method = "get_enhanced_profit_analysis"
                      THEN sorted_operations ELSE operations)
    /\ fees_buffer' = reset(fees_buffer)
                        \o Map(FeeEntry, SelectSeq(sorted_operations', IsFee))
    /\ margin_operations' = reset(margin_operations)
                        \o Map(MarginEntry, SelectSeq(sorted_operations', IsMargin))
    /\ trading_operations' = SelectSeq(sorted_operations', IsTrading)
    /\ completed_trades' = << >>
    /\ trading_sessions' = << >>
    /\ pc' = "session_group"
    /\ UNCHANGED << operations, starting_positions, timezone_offset,
                    figi_queue, figi, figi_ops, op_index, current_position,
                    new_position, current_trade_operations, trades, all_trades,
                    total_profit, current_positions,
                    use_current_positions, position_history, bot_vars,
                    report, calls, other,
                    current_session, method >>

\* _group_operations_into_sessions up to its loop: group the operations by FIGI.
SessionGroupByFigi ==
    /\ pc = "session_group"
    /\ figi_queue' = FigiOrder(trading_operations)
    /\ pc' = "session_figis"
    /\ UNCHANGED << operations, starting_positions, timezone_offset,
                    sorted_operations, fees_buffer, margin_operations,
                    trading_operations, figi, figi_ops, op_index,
                    current_position, new_position, current_trade_operations,
                    trades, all_trades, total_profit >>
    /\ UNCHANGED session_vars

\* The next FIGI: _create_sessions_for_figi up to its loop.
SessionStartFigi ==
    /\ pc = "session_figis"
    /\ figi_queue # << >>
    /\ LET f == Head(figi_queue)
       IN  /\ figi' = f
           /\ figi_ops' = SortByDate(OpsOfFigi(trading_operations, f))
           /\ current_position' = Get(starting_positions, f, 0)
    /\ current_session' = NoSession
    /\ figi_queue' = Tail(figi_queue)
    /\ op_index' = 0
    /\ pc' = "session_ops"
    /\ UNCHANGED << operations, starting_positions, timezone_offset,
                    sorted_operations, fees_buffer, margin_operations,
                    trading_operations, new_position, current_trade_operations,
                    trades, all_trades, total_profit, current_positions,
                    use_current_positions, position_history, bot_vars,
                    report,
                    calls, other, trading_sessions, completed_trades, method >>

\* One iteration of the loop of _create_sessions_for_figi.
SessionProcessOperation ==
    /\ pc = "session_ops"
    /\ op_index < Len(figi_ops)
    /\ LET operation == figi_ops[op_index + 1]
           changed == _process_position_change(timezone_offset, figi, operation,
                          current_position, NewPosition(current_position, operation),
                          operation.quantity, operation.operation_type = BUY,
                          current_session, trading_sessions, fees_buffer,
                          margin_operations)
       IN  /\ new_position' = NewPosition(current_position, operation)
           /\ current_position' = new_position'
           /\ current_session' = changed.current_session
           /\ trading_sessions' = changed.trading_sessions
           /\ fees_buffer' = changed.fees_buffer
           /\ margin_operations' = changed.margin_operations
    /\ op_index' = op_index + 1
    /\ UNCHANGED << operations, starting_positions, timezone_offset, pc,
                    sorted_operations, trading_operations, figi_queue, figi,
                    figi_ops, current_trade_operations, trades, all_trades,
                    total_profit, current_positions,
                    use_current_positions, position_history, bot_vars,
                    report, calls, other,
                    completed_trades, method >>

\* The end of _create_sessions_for_figi: the session left is finalized and
\* kept if it has both bought and sold.
SessionFinishFigi ==
    /\ pc = "session_ops"
    /\ op_index = Len(figi_ops)
    /\ IF current_session # NoSession /\ IsRoundTrip(current_session[1])
       THEN LET closed == _finalize_session(timezone_offset, current_session[1],
                              fees_buffer, margin_operations)
            IN  /\ current_session' = << closed.session >>
                /\ trading_sessions' = Append(trading_sessions, closed.session)
                /\ fees_buffer' = closed.fees_buffer
                /\ margin_operations' = closed.margin_operations
       ELSE UNCHANGED << current_session, trading_sessions, fees_buffer,
                         margin_operations >>
    /\ pc' = "session_figis"
    /\ UNCHANGED << operations, starting_positions, timezone_offset,
                    sorted_operations, trading_operations, figi_queue, figi,
                    figi_ops, op_index, current_position, new_position,
                    current_trade_operations, trades, all_trades, total_profit,
                    current_positions,
                    use_current_positions, position_history, bot_vars,
                    report, calls, other, completed_trades,
                    method >>

\* The trade of every session.
SessionTrades(tz, sessions) ==
    [i \in 1..Len(sessions) |-> _create_trade_from_session(tz, sessions[i])]

\* _convert_sessions_to_trades(), the total and the return of
\* process_operations_with_starting_positions.
SessionConvert ==
    /\ pc = "session_figis"
    /\ figi_queue = << >>
    /\ completed_trades' =
           completed_trades \o SessionTrades(timezone_offset, trading_sessions)
    /\ total_profit' = RSum(Map(NetProfit, completed_trades'))
    /\ pc' = "session_done"
    /\ UNCHANGED << operations, starting_positions, timezone_offset,
                    sorted_operations, fees_buffer, margin_operations,
                    trading_operations, figi_queue, figi, figi_ops, op_index,
                    current_position, new_position, current_trade_operations,
                    trades, all_trades, current_positions,
                    use_current_positions, position_history, bot_vars,
                    report, calls, other,
                    current_session, trading_sessions, method >>

\* get_enhanced_profit_analysis returns what
\* process_operations_with_starting_positions returned, with the starting
\* positions it used.
EnhancedReturn ==
    /\ pc = "session_done"
    /\ method = "get_enhanced_profit_analysis"
    /\ pc' = "enhanced_done"
    /\ UNCHANGED << operations, starting_positions, timezone_offset,
                    sorted_operations, fees_buffer, margin_operations,
                    trading_operations, figi_queue, figi, figi_ops, op_index,
                    current_position, new_position, current_trade_operations,
                    trades, all_trades, total_profit >>
    /\ UNCHANGED session_vars

NextSession ==
    \/ CallProcessOperations
    \/ CallContinuous
    \/ AutoPositions
    \/ EnhancedReturnEmpty
    \/ EnhancedEstimate
    \/ SessionPrepare
    \/ SessionGroupByFigi
    \/ SessionStartFigi
    \/ SessionProcessOperation
    \/ SessionFinishFigi
    \/ SessionConvert
    \/ EnhancedReturn
    \/ Next

SpecSession == InitSession /\ [][NextSession]_vars

\* ------------------------------------------------ the bot of src/app/main.py
\* The tasks: 0 is wait_for_close, the others are webhook requests.
TaskIds == 0..MaxAlerts

\* What the webhook may post.
Signals == {"BUY", "SELL", "HOLD"}

\* id = str(random.randint(100, 10000)) of get_alert.
StrId(t) == [type |-> "str", value |-> t]

\* The id wait_for_close passes: wait_for_trade(0).
IntId == [type |-> "int", value |-> 0]

\* id + " Waiting " + ...: TypeError unless id is a str.
Raises(id) == id.type # "str"

\* quantity /= ii.lot of the instrument traded.
lot == 1

\* A task at the await it is suspended at.
Task(at, id, caller, operation, direction, quantity) ==
    [pc |-> at, id |-> id, caller |-> caller, operation |-> operation,
     direction |-> direction, quantity |-> quantity]

\* A task that has ended, and how.
Ended(task, how) == Task(how, task.id, "", "None", "None", 0)

\* A task that calls handle_operation(operation) and is suspended in
\* get_position_quantity.
Handling(task, caller, operation) ==
    Task("get_portfolio", task.id, caller, operation, "None", 0)

\* while unsuccessful_trade != None: ... await asyncio.sleep(...)
WhileLoop(task, recorded) ==
    IF recorded # "None"
    THEN Task("sleep", task.id, "wait_for_trade", "None", "None", 0)
    ELSE Ended(task, "finished")

\* The order handle_buy, handle_sell or handle_close posts after reading
\* position_quantity; quantity 0 where it posts none.
Order(operation, position_quantity, limit) ==
    IF operation = "BUY"
    THEN IF position_quantity < limit
         THEN [direction |-> "BUY", quantity |-> (limit - position_quantity) \div lot]
         ELSE [direction |-> "None", quantity |-> 0]
    ELSE IF operation = "SELL"
    THEN IF position_quantity > -limit
         THEN [direction |-> "SELL", quantity |-> (limit + position_quantity) \div lot]
         ELSE [direction |-> "None", quantity |-> 0]
    ELSE IF position_quantity # 0
         THEN [direction |-> IF position_quantity < 0 THEN "BUY" ELSE "SELL",
               quantity |-> Abs(position_quantity) \div lot]
         ELSE [direction |-> "None", quantity |-> 0]

\* The bot runs with piramid = False, inverted = False, stop_loss = False and
\* bot_working = True; the instrument is prepared.
InitBot ==
    /\ FreshCalculator
    /\ operations = << >>
    /\ starting_positions = NoStartingPositions
    /\ current_positions = NoStartingPositions
    /\ use_current_positions = FALSE
    /\ method = "process_operations_continuous"
    /\ pc = "bot"
    /\ q_limit \in 1..MaxQLimit
    /\ work_on_time \in BOOLEAN
    /\ position \in (-q_limit)..q_limit
    /\ unsuccessful_trade = "None"
    /\ failures_left \in 0..MaxFailures
    /\ tasks = [t \in TaskIds |->
                   Task("start", IF t = 0 THEN IntId ELSE StrId(t),
                        "", "None", "None", 0)]

\* get_alert: a webhook request arrives and is handled up to the first await
\* of handle_operation.
Alert(t, signal) ==
    /\ pc = "bot"
    /\ t # 0
    /\ tasks[t].pc = "start"
    /\ tasks' = [tasks EXCEPT ![t] =
                     IF signal \in {"BUY", "SELL"}
                     THEN Handling(@, "get_alert", signal)
                     ELSE Ended(@, "returned")]
    /\ UNCHANGED << calculator_vars, q_limit, work_on_time, position,
                    unsuccessful_trade, failures_left >>

\* wait_for_close: time_end is reached, handle_operation("CLOSE").
CloseTime ==
    /\ pc = "bot"
    /\ work_on_time
    /\ tasks[0].pc = "start"
    /\ tasks' = [tasks EXCEPT ![0] = Handling(@, "wait_for_close", "CLOSE")]
    /\ UNCHANGED << calculator_vars, q_limit, work_on_time, position,
                    unsuccessful_trade, failures_left >>

\* get_position_quantity returns; the handler posts its order, or none.
Portfolio(t) ==
    /\ pc = "bot"
    /\ tasks[t].pc = "get_portfolio"
    /\ LET order == Order(tasks[t].operation, position, q_limit)
       IN  tasks' = [tasks EXCEPT ![t] =
                        IF order.quantity # 0
                        THEN Task("post_order", @.id, @.caller, @.operation,
                                  order.direction, order.quantity)
                        ELSE Task("get_last_price", @.id, @.caller, @.operation,
                                  "None", 0)]
    /\ UNCHANGED << calculator_vars, q_limit, work_on_time, position,
                    unsuccessful_trade, failures_left >>

\* client.post_order returns: the market order is filled.
PostOrderSucceeds(t) ==
    /\ pc = "bot"
    /\ tasks[t].pc = "post_order"
    /\ position' = IF tasks[t].direction = "BUY"
                   THEN position + tasks[t].quantity * lot
                   ELSE position - tasks[t].quantity * lot
    /\ tasks' = [tasks EXCEPT ![t] =
                     Task("get_last_price", @.id, @.caller, @.operation, "None", 0)]
    /\ UNCHANGED << calculator_vars, q_limit, work_on_time,
                    unsuccessful_trade, failures_left >>

\* client.post_order raises: the handler returns 0 and so does
\* handle_operation; the caller goes on to its next await.
PostOrderFails(t) ==
    /\ pc = "bot"
    /\ tasks[t].pc = "post_order"
    /\ failures_left > 0
    /\ failures_left' = failures_left - 1
    /\ unsuccessful_trade' =
           IF tasks[t].caller = "wait_for_trade" THEN unsuccessful_trade
           ELSE tasks[t].operation
    /\ tasks' = [tasks EXCEPT ![t] =
                     IF @.caller = "get_alert"
                     THEN Task("created", @.id, "wait_for_trade", "None", "None", 0)
                     ELSE WhileLoop(@, unsuccessful_trade')]
    /\ UNCHANGED << calculator_vars, q_limit, work_on_time, position >>

\* client.get_last_price returns: handle_operation returns None.
LastPrice(t) ==
    /\ pc = "bot"
    /\ tasks[t].pc = "get_last_price"
    /\ unsuccessful_trade' =
           IF tasks[t].caller = "wait_for_trade" THEN "None"
           ELSE unsuccessful_trade
    /\ tasks' = [tasks EXCEPT ![t] =
                     IF @.caller = "wait_for_trade"
                     THEN WhileLoop(@, unsuccessful_trade')
                     ELSE IF @.caller = "get_alert" THEN Ended(@, "returned")
                     ELSE Ended(@, "next_day")]
    /\ UNCHANGED << calculator_vars, q_limit, work_on_time, position,
                    failures_left >>

\* The task made by asyncio.create_task(wait_for_trade(id)) starts.
StartWaiting(t) ==
    /\ pc = "bot"
    /\ tasks[t].pc = "created"
    /\ tasks' = [tasks EXCEPT ![t] = WhileLoop(@, unsuccessful_trade)]
    /\ UNCHANGED << calculator_vars, q_limit, work_on_time, position,
                    unsuccessful_trade, failures_left >>

\* wait_for_trade: the sleep is over; the recorded operation is retried.
Wake(t) ==
    /\ pc = "bot"
    /\ tasks[t].pc = "sleep"
    /\ tasks' = [tasks EXCEPT ![t] =
                     IF Raises(@.id) THEN Ended(@, "raised")
                     ELSE IF unsuccessful_trade \in {"BUY", "SELL", "CLOSE"}
                     THEN Handling(@, "wait_for_trade", unsuccessful_trade)
                     ELSE WhileLoop(@, unsuccessful_trade)]
    /\ UNCHANGED << calculator_vars, q_limit, work_on_time, position,
                    unsuccessful_trade, failures_left >>

\* GET /break_waiting
break_waiting ==
    /\ pc = "bot"
    /\ unsuccessful_trade' = "None"
    /\ UNCHANGED << calculator_vars, q_limit, work_on_time, position,
                    failures_left, tasks >>

\* What the event loop runs of task t.
TaskStep(t) ==
    \/ Portfolio(t)
    \/ PostOrderSucceeds(t)
    \/ PostOrderFails(t)
    \/ LastPrice(t)
    \/ StartWaiting(t)
    \/ Wake(t)

NextBot ==
    \/ \E t \in TaskIds, signal \in Signals : Alert(t, signal)
    \/ CloseTime
    \/ \E t \in TaskIds : Portfolio(t)
    \/ \E t \in TaskIds : PostOrderSucceeds(t)
    \/ \E t \in TaskIds : PostOrderFails(t)
    \/ \E t \in TaskIds : LastPrice(t)
    \/ \E t \in TaskIds : StartWaiting(t)
    \/ \E t \in TaskIds : Wake(t)
    \/ break_waiting

SpecBot == InitBot /\ [][NextBot]_vars

\* The event loop runs every task that is ready, and every request to the
\* broker is answered.
SpecBotFair ==
    /\ SpecBot
    /\ \A t \in TaskIds :
           WF_vars(TaskStep(t))

\* =================================================================== claims
\* What the claims speak of, computed from the arguments of the call alone.

\* The Buy/Sell operations of instrument f in time order.
TimeSortedTrading(f) ==
    LET Mine(op) == op.operation_type \in {BUY, SELL} /\ op.figi = f
    IN  SelectSeq(SortByDate(operations), Mine)

StartOf(f) == IF f \in DOMAIN starting_positions THEN starting_positions[f] ELSE 0

RECURSIVE BuyLots(_)
BuyLots(ops) ==
    IF ops = << >> THEN 0
    ELSE (IF Head(ops).operation_type = BUY THEN Head(ops).quantity ELSE 0)
         + BuyLots(Tail(ops))

RECURSIVE SellLots(_)
SellLots(ops) ==
    IF ops = << >> THEN 0
    ELSE (IF Head(ops).operation_type = SELL THEN Head(ops).quantity ELSE 0)
         + SellLots(Tail(ops))

\* The position after the first k operations of ops, starting from p0.
PositionAfter(ops, p0, k) ==
    p0 + BuyLots(SubSeq(ops, 1, k)) - SellLots(SubSeq(ops, 1, k))

\* Operation k of ops crosses or lands on zero.
CrossesAt(ops, p0, k) ==
    LET p == PositionAfter(ops, p0, k - 1)
        q == PositionAfter(ops, p0, k)
    IN  (p > 0 /\ q <= 0) \/ (p < 0 /\ q >= 0)

\* The places of the crossings among the first k operations.
CrossingsUpTo(ops, p0, k) == { i \in 1..k : CrossesAt(ops, p0, i) }

\* The place of the j-th crossing.
CrossingPlace(ops, p0, j) ==
    CHOOSE i \in CrossingsUpTo(ops, p0, Len(ops)) :
        Cardinality(CrossingsUpTo(ops, p0, i)) = j

\* The place before the excursion that the j-th crossing closes: the
\* previous crossing, or 0.
ExcursionOrigin(ops, p0, j) ==
    IF j = 1 THEN 0 ELSE CrossingPlace(ops, p0, j - 1)

\* The real operations of the buffer the j-th crossing closes.  The operation
\* of an overshooting previous crossing belongs to it.
ExcursionOperations(ops, p0, j) ==
    LET o == ExcursionOrigin(ops, p0, j)
        k == CrossingPlace(ops, p0, j)
    IN  IF o > 0 /\ PositionAfter(ops, p0, o) # 0
        THEN SubSeq(ops, o, k)
        ELSE SubSeq(ops, o + 1, k)

\* C1: for every instrument and every prefix of its time-sorted Buy/Sell
\* operations, the running position after the prefix is the starting position
\* plus the Buy quantities minus the Sell quantities of the prefix.
C1_PositionContinuity ==
    pc = "ops" =>
        /\ figi_ops = TimeSortedTrading(figi)
        /\ current_position =
               StartOf(figi) + BuyLots(SubSeq(figi_ops, 1, op_index))
                             - SellLots(SubSeq(figi_ops, 1, op_index))

C1_Witness ==
    /\ pc = "ops"
    /\ op_index >= 2
    /\ StartOf(figi) # 0
    /\ BuyLots(SubSeq(figi_ops, 1, op_index)) > 0
    /\ SellLots(SubSeq(figi_ops, 1, op_index)) > 0
    /\ current_position # StartOf(figi)

\* C2: every trade has at least one Buy and at least one Sell among the real
\* operations of its buffer.
C2_NoPhantomTrades ==
    pc = "ops" =>
        \A j \in 1..Len(trades) :
            LET real == ExcursionOperations(figi_ops, StartOf(figi), j)
            IN  BuyLots(real) > 0 /\ SellLots(real) > 0

\* C3: a trade is finalized at an operation exactly when the position before
\* it and the position after it are on opposite sides of zero or the position
\* lands on zero; such an operation finalizes exactly one trade, built from
\* the buffer with this operation, and nothing accumulated before the
\* operation stays in the buffer.
C3_Step ==
    (pc = "ops" /\ op_index' = op_index + 1) =>
        LET p == current_position
            q == current_position'
            crossing == (p > 0 /\ q <= 0) \/ (p < 0 /\ q >= 0)
            operation == figi_ops[op_index']
            real == SelectSeq(current_trade_operations, IsReal)
        IN  /\ q = PositionAfter(figi_ops, StartOf(figi), op_index')
            /\ crossing <=> Len(trades') = Len(trades) + 1
            /\ ~crossing =>
                   /\ trades' = trades
                   /\ Len(current_trade_operations') =
                          Len(current_trade_operations) + 1
            /\ crossing =>
                   /\ SubSeq(trades', 1, Len(trades)) = trades
                   /\ trades'[Len(trades')].exit_operation_id = operation.id
                   /\ trades'[Len(trades')].entry_operation_id =
                          IF real = << >> THEN operation.id ELSE real[1].id
                   /\ \A i \in 1..Len(current_trade_operations') :
                          current_trade_operations'[i].id = operation.id
                   /\ Len(current_trade_operations') <= 1

C3_TradeIffCrossing == [][C3_Step]_vars

C3_Witness ==
    /\ pc = "ops"
    /\ op_index >= 2
    /\ Len(trades) = 2
    /\ CrossesAt(figi_ops, StartOf(figi), op_index)
    /\ current_position # 0
    /\ Len(current_trade_operations) = 1

C8_TradeQuantity ==
    pc = "ops" =>
        \A j \in 1..Len(trades) :
            LET p0 == StartOf(figi)
                o == ExcursionOrigin(figi_ops, p0, j)
                opened == PositionAfter(figi_ops, p0, o)
                real == ExcursionOperations(figi_ops, p0, j)
            IN  trades[j].quantity =
                    IF opened # 0 THEN Abs(opened)
                    ELSE Min(BuyLots(real), SellLots(real))

\* C9: a trade is Long if the position held during the excursion it closes
\* was positive and Short if it was negative, also when its real operations
\* are all on one side.
C9_TradeDirection ==
    pc = "ops" =>
        \A j \in 1..Len(trades) :
            LET p0 == StartOf(figi)
                k == CrossingPlace(figi_ops, p0, j)
                held == PositionAfter(figi_ops, p0, k - 1)
            IN  trades[j].direction = IF held > 0 THEN "LONG" ELSE "SHORT"

\* The sum of the absolute amounts of the Fee operations of the input.
RECURSIVE InputFeeTotal(_)
InputFeeTotal(ops) ==
    IF ops = << >> THEN 0
    ELSE (IF Head(ops).operation_type = BROKER_FEE
          THEN Abs(Head(ops).payment) ELSE 0) + InputFeeTotal(Tail(ops))

\* The signed sum of the margin credits and debits of the input.
RECURSIVE InputMarginTotal(_)
InputMarginTotal(ops) ==
    IF ops = << >> THEN 0
    ELSE (IF Head(ops).operation_type \in {ACCRUING_VARMARGIN, WRITING_OFF_VARMARGIN}
          THEN Head(ops).payment ELSE 0) + InputMarginTotal(Tail(ops))

Fees(t) == t.fees
VariationMargin(t) == t.variation_margin

\* C4: whenever the call returns a non-empty trade list, the fees of the
\* trades sum to the absolute amounts of all Fee operations of the input.
C4_FeePoolConserved ==
    (pc = "done" /\ all_trades # << >>) =>
        RSum(Map(Fees, all_trades)) = FromInt(InputFeeTotal(operations))

C4_Witness ==
    /\ pc = "done"
    /\ Len(all_trades) >= 2
    /\ InputFeeTotal(operations) > 1
    /\ all_trades[1].figi # all_trades[2].figi
    /\ all_trades[1].fees # all_trades[2].fees
    /\ all_trades[1].fees # Zero
    /\ all_trades[2].fees # Zero

C6_NetProfit ==
    pc = "done" =>
        /\ \A i \in 1..Len(all_trades) :
               LET t == all_trades[i]
               IN  t.net_profit =
                       RAdd(RSub(t.gross_profit, t.fees), t.variation_margin)
        /\ total_profit = RSum(Map(NetProfit, all_trades))

C6_Witness ==
    /\ pc = "done"
    /\ Len(all_trades) >= 2
    /\ \A i \in 1..Len(all_trades) :
           /\ all_trades[i].fees # Zero
           /\ all_trades[i].variation_margin # Zero
           /\ all_trades[i].gross_profit # Zero
    /\ total_profit # Zero

\* The quantity a buffer resolves to: |start_position|, else |end_position|,
\* else the smaller of the Buy and the Sell lots of its real operations.
ResolvedQuantity(buffer, start_position, end_position) ==
    LET Lots(kind) ==
            LET Of(op) == ~op.virtual /\ op.type = kind
            IN  Sum(Map(Quantity, SelectSeq(buffer, Of)))
    IN  IF start_position # 0 THEN Abs(start_position)
        ELSE IF end_position # 0 THEN Abs(end_position)
        ELSE IF Lots(BUY) <= Lots(SELL) THEN Lots(BUY) ELSE Lots(SELL)

Returned == [trades |-> all_trades, total_profit |-> total_profit]

\* The five kinds of operation the reconstruction knows.
KnownKinds == {BUY, SELL, BROKER_FEE, WRITING_OFF_VARMARGIN, ACCRUING_VARMARGIN}

\* C11: an operation whose kind is none of Buy, Sell, Fee, MarginCredit and
\* MarginDebit is rejected: a call over an input that holds such an operation
\* does not return a normal result.
C11_UnknownKindRejected ==
    pc = "done" =>
        \A i \in 1..Len(operations) : operations[i].operation_type \in KnownKinds

\* C15: a call returns what a call with the same arguments returns on a
\* calculator just made, whatever this calculator was called with before; and
\* what an earlier call with the same arguments returned.
C15_RepeatableCalls ==
    pc = "done" =>
        /\ Returned = process_operations_continuous(timezone_offset, operations,
                                                    starting_positions)
        /\ \A k \in 1..Len(calls) :
               (/\ calls[k].operations = operations
                /\ calls[k].starting_positions = starting_positions
                /\ calls[k].timezone_offset = timezone_offset)
               => /\ calls[k].trades = all_trades
                  /\ calls[k].total_profit = total_profit

C15_Witness ==
    /\ pc = "done"
    /\ Len(calls) = 1
    /\ calls[1].operations = operations
    /\ calls[1].timezone_offset = timezone_offset
    /\ calls[1].trades # << >>
    /\ all_trades # << >>
    /\ all_trades[1].fees # Zero
    /\ fees_buffer # << >>

\* The list ops in the order p, a permutation of its places.
Permuted(ops, p) == [i \in 1..Len(ops) |-> ops[p[i]]]

\* C17: every permutation of the caller's list gives the same trades and the
\* same total.
C17_OrderIndependent ==
    pc = "done" =>
        \A p \in Permutations(1..Len(operations)) :
            process_operations_continuous(timezone_offset,
                Permuted(operations, p), starting_positions) = Returned

C21_ScenarioC ==
    (pc = "done" /\ operations = ScenarioC
                 /\ starting_positions = NoStartingPositions) =>
        /\ Len(all_trades) = 2
        /\ all_trades[1].direction = "LONG"
        /\ all_trades[1].quantity = ScenarioQuantity
        /\ all_trades[1].exit_operation_id = ScenarioC[2].id
        /\ all_trades[2].direction = "SHORT"
        /\ all_trades[2].quantity = 50
        /\ all_trades[2].entry_operation_id = ScenarioC[2].id
        /\ all_trades[2].exit_operation_id = ScenarioC[3].id

C21_Witness ==
    /\ pc = "done"
    /\ operations = ScenarioC
    /\ starting_positions = NoStartingPositions
    /\ Len(all_trades) = 2
    /\ all_trades[2].entry_time = correct_timezone(timezone_offset, HourTicks)

\* C22: scenario B, from a flat start, gives exactly one trade: Short, 100
\* lots, entry price 12, exit price 10, gross profit 200.
C22_ScenarioB ==
    (pc = "done" /\ operations = ScenarioB
                 /\ starting_positions = NoStartingPositions) =>
        /\ Len(all_trades) = 1
        /\ all_trades[1].direction = "SHORT"
        /\ all_trades[1].quantity = ScenarioQuantity
        /\ all_trades[1].entry_price = FromInt(ScenarioSellPrice)
        /\ all_trades[1].exit_price = FromInt(ScenarioBuyPrice)
        /\ all_trades[1].gross_profit = FromInt(200)

C22_Witness ==
    /\ pc = "done"
    /\ operations = ScenarioB
    /\ starting_positions = NoStartingPositions
    /\ Len(all_trades) = 1
    /\ all_trades[1].entry_operation_id = ScenarioB[1].id

\* The FIGIs of the Buy/Sell operations of the input.
TradedFigis ==
    { operations[i].figi :
        i \in { j \in 1..Len(operations) : operations[j].operation_type \in {BUY, SELL} } }

\* C12: calculate_starting_positions_from_current gives every instrument of
\* the current-position map or of a Buy/Sell operation its current position
\* (0 if absent) minus its Buy quantities plus its Sell quantities; current
\* {X: 20} and the single operation Sell 20 give 40 for X.
C12_StartingFromCurrent ==
    /\ pc = "calculated" =>
           /\ DOMAIN starting_positions = DOMAIN current_positions \cup TradedFigis
           /\ \A f \in DOMAIN starting_positions :
                  starting_positions[f] =
                      Get(current_positions, f, 0)
                          - BuyLots(TimeSortedTrading(f))
                          + SellLots(TimeSortedTrading(f))
    /\ calculate_starting_positions_from_current(
           << Operation(Template(SELL, "X", 20, 1), 1) >>,
           [f \in {"X"} |-> 20]) = [f \in {"X"} |-> 40]

C12_Witness ==
    /\ pc = "calculated"
    /\ DOMAIN current_positions = {"X"}
    /\ current_positions["X"] = 1
    /\ starting_positions["X"] = 2
    /\ SellLots(TimeSortedTrading("X")) = 2
    /\ BuyLots(TimeSortedTrading("X")) = 1
    /\ "Y" \in DOMAIN starting_positions
    /\ starting_positions["Y"] < 0

\* C13: auto_detect_starting_positions gives every instrument that has a
\* Buy/Sell operation -q if its first Buy/Sell in time is a Buy of q lots and
\* +q if it is a Sell of q lots, and has no other entry.
C13_AutoDetected ==
    pc = "detected" =>
        /\ DOMAIN starting_positions = TradedFigis
        /\ \A f \in TradedFigis :
               LET first == TimeSortedTrading(f)[1]
               IN  starting_positions[f] =
                       IF first.operation_type = BUY THEN -first.quantity
                       ELSE first.quantity

C13_Witness ==
    /\ pc = "detected"
    /\ DOMAIN starting_positions = {"X"}
    /\ starting_positions["X"] = -2
    /\ Len(operations) = 3
    /\ operations[1].operation_type = BROKER_FEE
    /\ operations[3].operation_type = SELL

\* The final position of instrument f: the replay of every Buy/Sell from the
\* starting positions.
SimulatedFinal(f) ==
    StartOf(f) + BuyLots(TimeSortedTrading(f)) - SellLots(TimeSortedTrading(f))

\* The instruments of the current-position map whose final position is not
\* the supplied one.
Mismatching == { f \in DOMAIN current_positions : SimulatedFinal(f) # current_positions[f] }

\* C14: validate_position_consistency reports valid exactly when every
\* instrument of the current-position map has the supplied position as its
\* simulated final position, and adds one issue for each instrument that has
\* not, for every operation list, the empty one too.
C14_ValidIffConsistent ==
    report.called =>
        /\ report.valid <=> Mismatching = {}
        /\ Cardinality(report.issues) = Cardinality(Mismatching)

\* C19: the entry_time and the exit_time of a trade are the shifted dates of
\* the first and the last real operation of its buffer; entry_time is not
\* after exit_time, and neither is the date of the virtual opening operation.
C19_TradeTimes ==
    pc = "ops" =>
        \A j \in 1..Len(trades) :
            LET real == ExcursionOperations(figi_ops, StartOf(figi), j)
                shift == timezone_offset * HourTicks
                virtual_date == figi_ops[1].date - 1
            IN  /\ trades[j].entry_time = real[1].date + shift
                /\ trades[j].exit_time = real[Len(real)].date + shift
                /\ trades[j].entry_time <= trades[j].exit_time
                /\ StartOf(figi) # 0 =>
                       /\ trades[j].entry_time \notin {virtual_date, virtual_date + shift}
                       /\ trades[j].exit_time \notin {virtual_date, virtual_date + shift}

C19_Witness ==
    /\ pc = "ops"
    /\ StartOf(figi) # 0
    /\ Len(trades) = 2
    /\ trades[1].entry_time < trades[1].exit_time
    /\ trades[1].entry_operation_id = figi_ops[1].id
    /\ trades[2].entry_time = trades[1].exit_time

C29_SortedThenAssigned ==
    /\ pc \in {"assign", "done"} =>
           \A i, j \in 1..Len(all_trades) :
               i < j => all_trades[i].exit_time <= all_trades[j].exit_time
    /\ pc # "done" =>
           \A t \in Range(trades) \cup Range(all_trades) :
               /\ t.fees = Zero
               /\ t.variation_margin = Zero
               /\ t.net_profit = t.gross_profit
    /\ pc = "assign" =>
           all_trades = _process_continuous_trading(timezone_offset,
                            trading_operations, starting_positions)

C29_Witness ==
    /\ pc = "done"
    /\ Len(all_trades) = 2
    /\ all_trades[1].figi # FigiOrder(trading_operations)[1]
    /\ all_trades[1].exit_time < all_trades[2].exit_time
    /\ all_trades[1].fees # Zero

\* C30: an operation that crosses zero and leaves a non-zero position leaves
\* a buffer of exactly that operation, with its full quantity and payment, so
\* it is the last operation of the trade it closes and the first of the next;
\* an operation that lands on zero leaves an empty buffer.
C30_Step ==
    (/\ pc = "ops" /\ op_index' = op_index + 1
     /\ _crosses_zero(current_position, current_position')) =>
        LET operation == figi_ops[op_index']
        IN  /\ current_position' = 0 => current_trade_operations' = << >>
            /\ current_position' # 0 =>
                   /\ Len(current_trade_operations') = 1
                   /\ current_trade_operations'[1].id = operation.id
                   /\ current_trade_operations'[1].type = operation.operation_type
                   /\ current_trade_operations'[1].quantity = operation.quantity
                   /\ current_trade_operations'[1].payment =
                          quotation_to_float(operation.payment)
                   /\ ~current_trade_operations'[1].virtual
                   /\ \A t \in Range(trades') \ Range(trades) :
                          t.exit_operation_id = operation.id
                   /\ \A t \in Range(_create_trade_from_operations(
                                    timezone_offset, figi,
                                    current_trade_operations', current_position',
                                    0)) :
                          t.entry_operation_id = operation.id

C30_ReseededBuffer == [][C30_Step]_vars

C30_Witness ==
    /\ pc = "ops"
    /\ op_index > 0
    /\ current_position # 0
    /\ trades # << >>
    /\ trades[Len(trades)].exit_operation_id = figi_ops[op_index].id
    /\ Len(current_trade_operations) = 1
    /\ current_trade_operations[1].id = figi_ops[op_index].id
    /\ current_trade_operations[1].quantity > Abs(current_position)

\* The method the caller called has returned.
MethodReturned ==
    \/ pc = "session_done" /\ method = "process_operations"
    \/ pc = "done" /\ method \in {"process_operations_continuous",
                                  "process_operations_with_auto_positions"}
    \/ pc = "enhanced_done"

\* C23: on the empty list each of process_operations,
\* process_operations_continuous, process_operations_with_auto_positions and
\* get_enhanced_profit_analysis returns, without raising, no trades, the
\* total 0 and an empty map of starting positions.
C23_EmptyInput ==
    operations = << >> =>
        /\ pc # "raised"
        /\ ~MethodReturned => ENABLED NextSession
        /\ MethodReturned =>
               /\ all_trades = << >>
               /\ completed_trades = << >>
               /\ total_profit = Zero
               /\ starting_positions = NoStartingPositions

C23_Witness ==
    /\ operations = << >>
    /\ MethodReturned
    /\ method = "process_operations"
    /\ pc = "session_done"
    /\ figi_queue = << >>
    /\ trading_sessions = << >>

\* The trades of instrument f that process_operations returned.
SessionTradesOf(f) ==
    LET Mine(t) == t.figi = f IN SelectSeq(completed_trades, Mine)

\* The operations ops of one instrument, from a flat start, are round trips
\* from flat to flat and nothing else.
RoundTripsOnly(ops) ==
    /\ ops # << >>
    /\ PositionAfter(ops, 0, Len(ops)) = 0
    /\ \A k \in 1..Len(ops) :
           ~_crosses_zero_strict(PositionAfter(ops, 0, k - 1),
                                 PositionAfter(ops, 0, k))

\* What the Sells of ops brought less what its Buys cost.
RECURSIVE PaymentBalance(_)
PaymentBalance(ops) ==
    IF ops = << >> THEN 0 ELSE Head(ops).payment + PaymentBalance(Tail(ops))

\* C24: through process_operations, k consecutive round trips of an
\* instrument from flat to flat give exactly k trades of it, the j-th with
\* the gross profit of the j-th round trip.
C24_RoundTrips ==
    (pc = "session_done" /\ method = "process_operations") =>
        \A f \in Figis :
            LET ops == TimeSortedTrading(f)
                k == Cardinality(CrossingsUpTo(ops, 0, Len(ops)))
            IN  RoundTripsOnly(ops) =>
                    /\ Len(SessionTradesOf(f)) = k
                    /\ \A j \in 1..k :
                           SessionTradesOf(f)[j].gross_profit =
                               FromInt(PaymentBalance(
                                   ExcursionOperations(ops, 0, j)))

\* The date of the operation of the input that has the id id.
DateOf(id) == (CHOOSE op \in Range(operations) : op.id = id).date

\* The date d lies between the first and the last operation of the trade t.
WithinTrade(t, d) ==
    DateOf(t.entry_operation_id) <= d /\ d <= DateOf(t.exit_operation_id)

\* The date d lies within five minutes of the first or of the last operation
\* of the trade t.
NearTrade(t, d) ==
    \/ Abs(d - DateOf(t.entry_operation_id)) <= FeeSlack
    \/ Abs(d - DateOf(t.exit_operation_id)) <= FeeSlack

\* The fees of the input that are of the instrument of the trade t and lie
\* between its first and last operation or within five minutes of either.
FeesDue(t) ==
    LET Due(op) == /\ IsFee(op)
                   /\ op.figi = t.figi
                   /\ (WithinTrade(t, op.date) \/ NearTrade(t, op.date))
    IN  SelectSeq(operations, Due)

\* C25: through process_operations, every fee of a trade's instrument dated
\* between the trade's first and last operation, or within five minutes of
\* either, is charged in full to that trade.
C25_FeeCharged ==
    (pc = "session_done" /\ method = "process_operations") =>
        \A i \in 1..Len(completed_trades) :
            ~RLess(completed_trades[i].fees,
                   RSum(Map(Amount, Map(FeeEntry, FeesDue(completed_trades[i])))))

\* The margin operations of the input dated between the first and the last
\* operation of the trade t.
MarginDue(t) ==
    LET Due(op) == IsMargin(op) /\ WithinTrade(t, op.date)
    IN  SelectSeq(operations, Due)

\* C26: through process_operations, a margin operation is added to the net
\* profit of a trade if and only if its date lies between the trade's first
\* and last operation, both included.
C26_MarginWithinTrade ==
    (pc = "session_done" /\ method = "process_operations") =>
        \A i \in 1..Len(completed_trades) :
            LET t == completed_trades[i]
                due == RSum(Map(Amount, Map(MarginEntry, MarginDue(t))))
            IN  /\ t.variation_margin = due
                /\ t.net_profit = RAdd(RSub(t.gross_profit, t.fees), due)

\* The operations ops of one instrument, from a flat start, are one Buy that
\* opens a long and several Sells that together close it.
OneBuySeveralSells(ops) ==
    /\ Len(ops) >= 3
    /\ ops[1].operation_type = BUY
    /\ \A k \in 2..Len(ops) : ops[k].operation_type = SELL
    /\ PositionAfter(ops, 0, Len(ops)) = 0

\* C27: through process_operations, when one Buy opens a long that several
\* Sells close, every closing Sell gives its own trade, of the lots of that
\* Sell and with the gross profit (sell price - buy price) * lots.
C27_PartialCloses ==
    (pc = "session_done" /\ method = "process_operations") =>
        \A f \in Figis :
            LET ops == TimeSortedTrading(f)
            IN  OneBuySeveralSells(ops) =>
                    /\ Len(SessionTradesOf(f)) = Len(ops) - 1
                    /\ \A j \in 1..(Len(ops) - 1) :
                           /\ SessionTradesOf(f)[j].quantity = ops[j + 1].quantity
                           /\ SessionTradesOf(f)[j].gross_profit =
                                  FromInt((ops[j + 1].price - ops[1].price)
                                          * ops[j + 1].quantity)

\* C28: through process_operations, a position still open at the end of the
\* input gives no trade: every trade is of a session that bought as many lots
\* as it sold; an input whose Buy/Sell operations are all Buys gives no trades
\* and the total 0.
C28_OpenPositionLeftOut ==
    (pc = "session_done" /\ method = "process_operations") =>
        /\ \A i \in 1..Len(completed_trades) :
               completed_trades[i].session_data.total_quantity_bought =
                   completed_trades[i].session_data.total_quantity_sold
        /\ (\A k \in 1..Len(operations) :
                IsTrading(operations[k]) => operations[k].operation_type = BUY)
           => (completed_trades = << >> /\ total_profit = Zero)

\* C16: of two calls running at once on one calculator, under every
\* interleaving of their steps, each returns the trades and the total it
\* returns when it runs alone.
C16_NoInterference ==
    /\ pc = "done" =>
           Returned = process_operations_continuous(timezone_offset, operations,
                                                    starting_positions)
    /\ other.pc = "done" =>
           [trades |-> other.trades, total_profit |-> other.total_profit] =
               process_operations_continuous(timezone_offset, other.operations,
                                             NoStartingPositions)

\* C31: before the first operation of an instrument and after every Buy/Sell
\* of it that has been processed, the buffer is empty if and only if the
\* running position is 0.
C31_FlatIffEmptyBuffer ==
    pc = "ops" => (current_trade_operations = << >> <=> current_position = 0)

C31_Witness ==
    /\ pc = "ops"
    /\ op_index >= 2
    /\ op_index < Len(figi_ops)
    /\ current_position = 0
    /\ current_trade_operations = << >>
    /\ trades # << >>

C33_SnapshotUsedWhenSupplied ==
    (method = "get_enhanced_profit_analysis" /\ pc = "enhanced_done"
         /\ operations # << >>) =>
        starting_positions =
            IF use_current_positions
            THEN calculate_starting_positions_from_current(SortByDate(operations),
                                                           current_positions)
            ELSE auto_detect_starting_positions(SortByDate(operations))

\* C34: through process_operations_with_auto_positions, the running position
\* of every instrument after its first Buy/Sell operation in time order is 0:
\* that operation lands on zero and closes the excursion the detected
\* starting position opened.
C34_FirstOperationLandsOnZero ==
    (method = "process_operations_with_auto_positions" /\ pc = "ops"
         /\ figi_ops # << >>) =>
        /\ figi_ops[1].id = TimeSortedTrading(figi)[1].id
        /\ StartOf(figi) # 0
        /\ op_index = 1 =>
               /\ current_position = 0
               /\ current_trade_operations = << >>

C34_Witness ==
    /\ method = "process_operations_with_auto_positions"
    /\ pc = "ops"
    /\ op_index = 1
    /\ Len(figi_ops) = 2
    /\ figi_ops[1].operation_type = BUY
    /\ figi_ops[1].quantity = 2
    /\ StartOf(figi) = -2
    /\ current_position = 0
    /\ trades # << >>

\* C35: for every non-empty map of current positions and every operation
\* list, the validator called with the starting positions the reverse walk
\* derived from the map, and with the map, reports valid with no issue; the
\* reverse walk leaves the map as it was.
C35_EstimateThenValidate ==
    [][/\ CalculateFromCurrent => current_positions' = current_positions
       /\ (Validate /\ current_positions # NoStartingPositions
               /\ starting_positions =
                      calculate_starting_positions_from_current(operations,
                                                                current_positions)) =>
              /\ report'.called
              /\ report'.valid
              /\ report'.issues = {}]_vars

C35_Witness ==
    /\ report.called
    /\ report.valid
    /\ DOMAIN current_positions = {"X"}
    /\ current_positions["X"] = 1
    /\ Len(TimeSortedTrading("X")) = 2
    /\ TimeSortedTrading("Y") # << >>
    /\ starting_positions =
           calculate_starting_positions_from_current(operations, current_positions)
    /\ starting_positions["X"] = -1
    /\ starting_positions["Y"] # 0

\* The snapshots of instrument f that follow an operation.
Moves(f) ==
    LET Moved(entry) == entry.operation_type # "INITIAL"
    IN  SelectSeq(Get(position_history, f, << >>), Moved)

\* C36: the three replays of the same operations from the same starting
\* positions agree: the operations the position history marks crosses_zero
\* are exactly the ones at which the tracker finalized a trade, after every
\* operation the tracker's running position is the position of the history,
\* and the last position of the history of an instrument is the tracker's
\* final running position and the validator's final simulated position.
C36_ReplaysAgree ==
    (pc = "ops" /\ report.called) =>
        LET history == position_history[figi]
            moves == Moves(figi)
            crossings == { k \in 1..op_index : moves[k].crosses_zero }
        IN  /\ Len(moves) = Len(figi_ops)
            /\ { moves[k].operation_id : k \in crossings }
                   = { trades[j].exit_operation_id : j \in 1..Len(trades) }
            /\ Cardinality(crossings) = Len(trades)
            /\ op_index >= 1 => moves[op_index].position = current_position
            /\ op_index = Len(figi_ops) =>
                   /\ history[Len(history)].position = current_position
                   /\ report.final_simulated_positions # << >>
                   /\ report.final_simulated_positions[1][figi] = current_position

C36_Witness ==
    /\ pc = "ops"
    /\ report.called
    /\ op_index = 3
    /\ Len(figi_ops) = 3
    /\ Len(position_history[figi]) = 4
    /\ Moves(figi)[1].crosses_zero
    /\ ~Moves(figi)[2].crosses_zero
    /\ Moves(figi)[3].crosses_zero
    /\ Len(trades) = 2
    /\ current_position = -1

\* The entries of buffer that the map given gives to trade j, summed.
AmountGiven(buffer, given, j) ==
    LET Mine(e) == given[e.operation.id] = j
    IN  RSum(Map(Amount, SelectSeq(buffer, Mine)))

\* Each entry of buffer goes to one of the trades or to none (0), only
\* assigned entries go to a trade, and take(t) is what t was given.
CountedOnce(buffer, ts, take(_)) ==
    \E given \in [{ buffer[i].operation.id : i \in 1..Len(buffer) } -> 0..Len(ts)] :
        /\ \A i \in 1..Len(buffer) :
               given[buffer[i].operation.id] # 0 => buffer[i].assigned
        /\ \A j \in 1..Len(ts) : take(ts[j]) = AmountGiven(buffer, given, j)

C38_PositionWithinLimit ==
    (pc = "bot" /\ ~work_on_time) =>
        (-q_limit <= position /\ position <= q_limit)

\* Task t is in wait_for_trade: made and not started, asleep, or retrying.
InWaitForTrade(t) ==
    \/ tasks[t].pc \in {"created", "sleep"}
    \/ /\ tasks[t].caller = "wait_for_trade"
       /\ tasks[t].pc \in {"get_portfolio", "post_order", "get_last_price"}

\* C39: while an operation is recorded in unsuccessful_trade, every iteration
\* of the loop of wait_for_trade retries it; and, the broker refusing only
\* finitely many orders, unsuccessful_trade becomes None again and every task
\* in wait_for_trade leaves it.
C39_RetriedUntilCleared ==
    /\ [][\A t \in TaskIds :
              (tasks[t].pc = "sleep" /\ tasks'[t].pc # "sleep"
                   /\ unsuccessful_trade # "None") =>
                  /\ tasks'[t].pc = "get_portfolio"
                  /\ tasks'[t].operation = unsuccessful_trade]_vars
    /\ (unsuccessful_trade # "None") ~> (unsuccessful_trade = "None")
    /\ \A t \in TaskIds : InWaitForTrade(t) ~> ~InWaitForTrade(t)

\* The same with the closing at time_end switched off: every operation
\* recorded was recorded by get_alert.
RetriedUntilCleared_Alerts ==
    /\ [][\A t \in TaskIds :
              (tasks[t].pc = "sleep" /\ tasks'[t].pc # "sleep"
                   /\ unsuccessful_trade # "None" /\ ~work_on_time) =>
                  /\ tasks'[t].pc = "get_portfolio"
                  /\ tasks'[t].operation = unsuccessful_trade]_vars
    /\ (unsuccessful_trade # "None" /\ ~work_on_time)
           ~> (unsuccessful_trade = "None")
    /\ \A t \in TaskIds : InWaitForTrade(t) ~> ~InWaitForTrade(t)

====
